---- MODULE Spec2Model ----
(***************************************************************************)
(* LEAGUE_COACH_OS, python-brain: the resilient-orchestration core.        *)
(*                                                                         *)
(*   orchestrator/swarm.py      AgentCircuitBreaker, LeagueCoachingSwarm   *)
(*   agents/coaching_agents.py  _call_llm and the four advisory agents     *)
(*   agents/judge.py            FinalJudgeValidatorAgent                   *)
(*   daemon/live_pipeline.py    LiveCoachingPipeline                       *)
(*                                                                         *)
(* Three specifications share the variables below:                         *)
(*   SpecBreaker   one AgentCircuitBreaker driven by execute calls, up to  *)
(*                 MaxInFlight of them suspended at the await at a time    *)
(*   SpecSwarm     LeagueCoachingSwarm.coach, phase by phase               *)
(*   SpecPipeline  LiveCoachingPipeline.process_screenshot under a clock   *)
(***************************************************************************)
EXTENDS Integers, Sequences, FiniteSets, TLC

\* ------------------------------------------------------------------------
\* Bounds of the model
\* ------------------------------------------------------------------------
MaxCalls == 5
MaxInFlight == 2
MaxRuns == 2
MaxRequests == 2
Epoch == 3
Horizon == 11
MaxActiveChecks == 2
MaxDetects == 3
ClockHorizon == 26
MaxHistoryDetects == 102
MaxScreenChanges == 1
MaxUpdates == 2
MaxWall == 1
MaxLifetimeUpdates == 5
MaxMessages == 13
ChatMaxHistory == 3
MaxPolledMessages == 4
MaxThreads == 2
MaxShots == 4

\* ------------------------------------------------------------------------
\* Program constants
\* ------------------------------------------------------------------------
failure_threshold == 3
cooldown_between_shots == 3
max_coaching_time == 8
vision_timeout == 10
game_state_confidence == 65
HistoryCap == 100
HistoryKeep == 50

None == "None"

BreakerNames == {"vision", "build", "laning", "teamfight", "macro"}

\* The fallback argument of execute: absent, a plain callable, or a
\* coroutine function.
Fallbacks == {"none", "sync", "async"}

\* How the awaited coroutine ends under asyncio.wait_for: it returns in
\* time, it raises an Exception, or wait_for raises TimeoutError.
Outcomes == {"ok", "raise", "timeout"}

VARIABLES
    breakers,     \* LeagueCoachingSwarm.breakers: name -> [failures, is_open]
    slots,        \* execute calls suspended at line 86, per caller slot
    hist,         \* how the awaited wrapped calls ended, in completion order
    last_call,    \* what the execute call that returned last did
    n_calls,      \* number of execute calls made so far
    overlapped,   \* TRUE once an execute began while another was suspended
    run,          \* the coach() call of LeagueCoachingSwarm in progress
    n_runs,       \* number of coach() calls made so far
    now,          \* time.time(), in seconds
    last_process_time,  \* LiveCoachingPipeline._last_process_time
    initialized,  \* LiveCoachingPipeline._initialized
    client,       \* LiveCoachingEngine.client, from config.anthropic_api_key
    detector,     \* the GameStateDetector of the pipeline
    session,      \* coaching_engine.session, the GameSession
    prs,          \* the process_screenshot calls that have not returned
    last_result,  \* what the last process_screenshot call to return returned
    n_requests,   \* number of process_screenshot calls made so far
    out,          \* files written to disk and callbacks made
    disk,         \* whether a file can be written now
    classified,   \* the frame the last detect call of the pipeline classified
    thrown,       \* the last exception thrown inside process_screenshot
    judge,        \* the last FinalJudgeValidatorAgent.validate call
    clf,          \* a GameStateDetector on its own
    seen,         \* the GameStateResult of its last detect call
    clk,          \* time.time() at the detector, in minutes
    n_detects,    \* number of detect calls made on clf so far
    shown,        \* the frame on screen
    n_changes,    \* number of times the screen has changed
    store,        \* a GameSession of its own, updated call by call
    last_update,  \* the last update of store: operation, state and input
    n_updates,    \* number of updates of store so far
    wall,         \* time.time() as the session store reads it
    lifecycle,    \* the game state coached last for store, and the one before
    advice,       \* what should_adjust_build returned last, and after how
                  \* many updates of store
    chat,         \* a ChatSession: its messages and its unread count
    n_messages,   \* number of add_message calls made on chat by its users
    pinned_ids,   \* ids of the messages that were pinned when they were added
    returned_id,  \* an id that GET /api/messages has returned to a client
    inference,    \* the last RoleInferenceEngineAgent.infer call: input, output
    watcher,      \* CoachingPipeline of the daemon: _processing and its stats
    threads,      \* where each "coaching-pipeline" thread is in process_screenshot
    n_shots       \* number of screenshots the watchers have reported so far

harness_vars == <<slots, hist, last_call, n_calls, overlapped>>

swarm_vars == <<run, n_runs>>

pipeline_vars == <<now, last_process_time, initialized, client, detector,
                   session, prs, last_result, n_requests, out, disk,
                   classified, thrown>>

judge_vars == <<judge>>

classifier_vars == <<clf, seen, clk, n_detects, shown, n_changes>>

session_store_vars ==
    <<store, last_update, n_updates, wall, lifecycle, advice>>

chat_vars == <<chat, n_messages, pinned_ids, returned_id>>

role_vars == <<inference>>

watcher_vars == <<watcher, threads, n_shots>>

unit_vars == <<judge_vars, classifier_vars, session_store_vars, chat_vars,
               role_vars, watcher_vars>>

vars == <<breakers, harness_vars, swarm_vars, pipeline_vars, unit_vars>>

\* ------------------------------------------------------------------------
\* AgentCircuitBreaker
\* ------------------------------------------------------------------------

\* __init__: failures = 0, is_open = False
NewBreaker == [failures |-> 0, is_open |-> FALSE]

\* `if fallback: return await fallback() if iscoroutinefunction(fallback)
\*  else fallback()` / `return None`
RunFallback(fallback) ==
    IF fallback = "none" THEN None
    ELSE IF fallback = "async" THEN "awaited_fallback_value"
    ELSE "fallback_value"

OnSuccess_Closes(br) == [failures |-> 0, is_open |-> FALSE]

\* try-branch after the await: self.failures = 0
OnSuccess(br) == [br EXCEPT !.failures = 0]

OnFailure_OffByOne(br) ==
    LET f == br.failures + 1
    IN  [failures |-> f, is_open |-> br.is_open \/ f > failure_threshold]

\* except-branch: self.failures += 1; if self.failures >= self.threshold:
\* self.is_open = True
OnFailure(br) ==
    LET f == br.failures + 1
    IN  [failures |-> f, is_open |-> br.is_open \/ f >= failure_threshold]

Caught_TimeoutOnly(outcome) == outcome = "timeout"

\* `except (asyncio.TimeoutError, Exception)`
Caught(outcome) == outcome \in {"raise", "timeout"}

ShortCircuits_Never(br) == FALSE

\* `if self.is_open:` at the top of execute
ShortCircuits(br) == br.is_open

NoCall == [pc |-> "idle", fallback |-> "none"]

Slots == 1..MaxInFlight

Awaiting == {s \in Slots : slots[s].pc = "awaiting"}

\* The harness of SpecBreaker drives this breaker.
Harness == "build"

\* execute, up to the await: an open breaker returns the fallback at once
\* and never awaits coro; a closed one suspends in wait_for.
ExecuteBegin(b, s, fallback) ==
    /\ n_calls < MaxCalls
    /\ slots[s].pc = "idle"
    /\ n_calls' = n_calls + 1
    /\ IF ShortCircuits(breakers[b])
       THEN /\ last_call' = [fallback |-> fallback, awaited |-> FALSE,
                             outcome |-> "short_circuit",
                             propagated |-> FALSE,
                             ret |-> RunFallback(fallback)]
            /\ UNCHANGED <<slots, overlapped>>
       ELSE /\ slots' = [slots EXCEPT ![s] = [pc |-> "awaiting",
                                              fallback |-> fallback]]
            /\ overlapped' = (overlapped \/ Awaiting # {})
            /\ UNCHANGED last_call
    /\ UNCHANGED <<breakers, hist>>

\* execute, from the await on: the wrapped call has ended with `outcome`.
ExecuteComplete(b, s, outcome) ==
    /\ slots[s].pc = "awaiting"
    /\ slots' = [slots EXCEPT ![s] = NoCall]
    /\ IF outcome = "ok"
       THEN /\ breakers' = [breakers EXCEPT ![b] = OnSuccess(@)]
            /\ hist' = Append(hist, "ok")
            /\ last_call' = [fallback |-> slots[s].fallback, awaited |-> TRUE,
                             outcome |-> outcome, propagated |-> FALSE,
                             ret |-> "result"]
       ELSE IF Caught(outcome)
       THEN /\ breakers' = [breakers EXCEPT ![b] = OnFailure(@)]
            /\ hist' = Append(hist, "fail")
            /\ last_call' = [fallback |-> slots[s].fallback, awaited |-> TRUE,
                             outcome |-> outcome, propagated |-> FALSE,
                             ret |-> RunFallback(slots[s].fallback)]
       ELSE /\ hist' = Append(hist, "fail")
            /\ last_call' = [fallback |-> slots[s].fallback, awaited |-> TRUE,
                             outcome |-> outcome, propagated |-> TRUE,
                             ret |-> None]
            /\ UNCHANGED breakers
    /\ UNCHANGED <<n_calls, overlapped>>

NoLastCall == [fallback |-> "none", awaited |-> FALSE, outcome |-> "none",
               propagated |-> FALSE, ret |-> None]

BeginCall ==
    /\ \E s \in Slots, fb \in Fallbacks : ExecuteBegin(Harness, s, fb)
    /\ UNCHANGED <<swarm_vars, pipeline_vars, unit_vars>>

CompleteCall ==
    /\ \E s \in Slots, o \in Outcomes : ExecuteComplete(Harness, s, o)
    /\ UNCHANGED <<swarm_vars, pipeline_vars, unit_vars>>

\* ------------------------------------------------------------------------
\* LeagueCoachingSwarm.coach
\* ------------------------------------------------------------------------

\* The four generators of phase 4, each behind the breaker of its name.
Advisory == {"build", "laning", "teamfight", "macro"}

\* What the external analysis service does with one request: it answers
\* with a payload that parses, with one that does not (empty, not JSON, of
\* the wrong shape), the client raises, or the answer does not come within
\* the breaker's timeout.
ExtOutcomes == {"payload", "malformed", "client_error", "slow"}

AgentEnd_ParseErrorEscapes(ext) ==
    IF ext = "slow" THEN "timeout"
    ELSE IF ext = "malformed" THEN "raise"
    ELSE "ok"

\* How the agent coroutine ends for the breaker that awaits it. _call_llm
\* catches every Exception of the client and of json.loads and returns {},
\* and plan()/coach()/analyze() catch what the output model rejects: the
\* coroutine returns normally in all these cases. VisionParserAgent.parse
\* has the same try/except around the whole call.
AgentEnd(ext) == IF ext = "slow" THEN "timeout" ELSE "ok"

\* What the agent coroutine returns when it returns: the parsed output, or
\* the agent's own safe default (_fallback_build and the like; for the
\* vision parser, ten "Unknown" slots).
AgentPayload(ext) ==
    IF ext = "payload" THEN "llm_payload" ELSE "default_payload"

\* The value `await breaker.execute(agent(...))` yields in coach(), where
\* no fallback is ever passed.
ExecuteResult(ext) ==
    IF AgentEnd(ext) = "ok" THEN AgentPayload(ext)
    ELSE IF Caught(AgentEnd(ext)) THEN RunFallback("none")
    ELSE "propagated"

\* The breaker after the awaited agent coroutine has ended.
BreakerAfter(br, ext) ==
    IF AgentEnd(ext) = "ok" THEN OnSuccess(br)
    ELSE IF Caught(AgentEnd(ext)) THEN OnFailure(br)
    ELSE br

Pending == "pending"

NoRun ==
    [pc |-> "idle", image_data |-> FALSE, teams |-> FALSE,
     vision |-> Pending,
     ext |-> [a \in Advisory |-> Pending],
     result |-> [a \in Advisory |-> Pending],
     judge_result |-> Pending, package |-> None, error |-> None,
     log |-> <<>>]

RunOver == run.pc \in {"idle", "done", "raised"}

Raise(r, err) == [r EXCEPT !.pc = "raised", !.error = err]

\* coach(), phase 1 up to its await: teams given directly skip the vision
\* parse; an image goes to the vision breaker; with neither coach raises.
CoachBegin(image_data, teams) ==
    /\ RunOver
    /\ n_runs < MaxRuns
    /\ n_runs' = n_runs + 1
    /\ LET r == [NoRun EXCEPT !.image_data = image_data, !.teams = teams]
       IN  IF teams
           THEN run' = [r EXCEPT !.pc = "phase2", !.vision = "skipped"]
           ELSE IF image_data
           THEN IF ShortCircuits(breakers["vision"])
                THEN run' = Raise([r EXCEPT !.vision = RunFallback("none"),
                                            !.log = <<"vision">>],
                                  "ValueError: vision parsing failed")
                ELSE run' = [r EXCEPT !.pc = "vision", !.log = <<"vision">>]
           ELSE run' = Raise(r, "ValueError: no image and no teams")
    /\ UNCHANGED <<breakers, harness_vars, pipeline_vars, unit_vars>>

\* Phase 1 after the await: `if vision_result: ... else: raise ValueError`.
VisionComplete(ext) ==
    /\ run.pc = "vision"
    /\ breakers' = [breakers EXCEPT !["vision"] = BreakerAfter(@, ext)]
    /\ LET v == ExecuteResult(ext)
           r == [run EXCEPT !.vision = v]
       IN  IF v = None
           THEN run' = Raise(r, "ValueError: vision parsing failed")
           ELSE run' = [r EXCEPT !.pc = "phase2"]
    /\ UNCHANGED <<n_runs, harness_vars, pipeline_vars, unit_vars>>

\* Phases 2 and 3: user context and role inference are gathered, then the
\* kits are built; both are local computations over the two validated
\* five-champion teams, without breaker and without external call.
ResolveIdentity ==
    /\ run.pc = "phase2"
    /\ run' = [run EXCEPT !.pc = "phase4", !.log = Append(@, "identity")]
    /\ UNCHANGED <<breakers, n_runs, harness_vars, pipeline_vars, unit_vars>>

\* Phase 4 up to the await of asyncio.gather: the four execute coroutines
\* start; those behind an open breaker have returned None already.
StartFanout ==
    /\ run.pc = "phase4"
    /\ run' = [run EXCEPT
                 !.pc = "gather",
                 !.log = Append(@, "fanout"),
                 !.result = [a \in Advisory |->
                                IF ShortCircuits(breakers[a])
                                THEN RunFallback("none") ELSE Pending],
                 !.ext = [a \in Advisory |->
                                IF ShortCircuits(breakers[a])
                                THEN "short_circuit" ELSE Pending]]
    /\ UNCHANGED <<breakers, n_runs, harness_vars, pipeline_vars, unit_vars>>

\* One member of the fan-out resolves.
AdvisoryComplete(a, ext) ==
    /\ run.pc = "gather"
    /\ run.result[a] = Pending
    /\ breakers' = [breakers EXCEPT ![a] = BreakerAfter(@, ext)]
    /\ run' = [run EXCEPT !.result[a] = ExecuteResult(ext), !.ext[a] = ext]
    /\ UNCHANGED <<n_runs, harness_vars, pipeline_vars, unit_vars>>

GatherDone_FirstCompleted(r) == \E a \in Advisory : r.result[a] # Pending

\* `await asyncio.gather(build_task, laning_task, teamfight_task,
\* macro_task)` returns once all four have returned.
GatherDone(r) == \A a \in Advisory : r.result[a] # Pending

\* JudgeInput declares build, laning, teamfight and macro as required
\* models (schemas/models.py:299-306): None is rejected by its constructor.
JudgeInputAccepts(r) == \A a \in Advisory : r.result[a] # None

\* Phase 5: the JudgeInput is built from the four results and validated.
JudgePhase ==
    /\ run.pc = "gather"
    /\ GatherDone(run)
    /\ IF JudgeInputAccepts(run)
       THEN run' = [run EXCEPT !.pc = "phase6",
                               !.log = Append(@, "validation"),
                               !.judge_result = "verdict"]
       ELSE run' = Raise(run, "ValidationError: JudgeInput")
    /\ UNCHANGED <<breakers, n_runs, harness_vars, pipeline_vars, unit_vars>>

\* Phase 6: the package is assembled and returned.
Assemble ==
    /\ run.pc = "phase6"
    /\ run' = [run EXCEPT !.pc = "done",
                          !.log = Append(@, "assembly"),
                          !.package = "GameCoachPackage"]
    /\ UNCHANGED <<breakers, n_runs, harness_vars, pipeline_vars, unit_vars>>

CoachCall == \E i \in BOOLEAN, t \in BOOLEAN : CoachBegin(i, t)

VisionReturns == \E e \in ExtOutcomes : VisionComplete(e)

AdvisoryReturns == \E a \in Advisory, e \in ExtOutcomes : AdvisoryComplete(a, e)

\* ------------------------------------------------------------------------
\* LiveCoachingPipeline.process_screenshot
\*
\* process_screenshot is a coroutine of a shared pipeline object: a caller
\* may enter it while an earlier call is still waiting for an external
\* answer. Time is counted in seconds from an arbitrary origin, Epoch
\* seconds before the first request can arrive.
\* ------------------------------------------------------------------------

\* A frame stands for what the six _check_* detectors make of it: the state
\* of the best candidate and its confidence, in hundredths.
Frames ==
    { [state |-> "tab_scoreboard", confidence |-> 90],
      [state |-> "death_screen", confidence |-> 90],
      [state |-> "loading_screen", confidence |-> 90],
      [state |-> "in_game_laning", confidence |-> 50] }

\* `self._game_start_time: Optional[float] = None`, as a time no clock shows
Unset == -1

\* GameStateDetector.__init__
NewDetector ==
    [state_history |-> <<>>, game_start_time |-> Unset,
     current_state |-> "not_lol", last_detection_time |-> 0]

\* GameSession.__init__, the fields the pipeline reads and writes here.
NewSession == [screenshots_analyzed |-> 0, deaths |-> 0, items_history |-> 0]

Detect_NoCap(det, frame, t) ==
    LET started == IF det.game_start_time = Unset THEN t
                   ELSE det.game_start_time
        clock == IF det.current_state = "loading_screen"
                    /\ frame.state = "in_game_laning"
                 THEN t ELSE started
    IN  [state_history |-> Append(det.state_history, frame.state),
         game_start_time |-> clock,
         current_state |-> frame.state, last_detection_time |-> t]

Detect_KeepsState(det, frame, t) ==
    [Detect_NoCap(det, frame, t) EXCEPT !.current_state = det.current_state]

\* GameStateDetector.detect on a frame at time t: _check_in_game starts the
\* session clock through _estimate_game_phase when it is unset,
\* _apply_temporal_context restarts it on loading -> in-game, the history
\* is appended and cut back to its last HistoryKeep entries past
\* HistoryCap, and the current state moves on. A history entry is kept by
\* its state; the time of the newest one is last_detection_time.
Detect(det, frame, t) ==
    LET started == IF det.game_start_time = Unset THEN t
                   ELSE det.game_start_time
        clock == IF det.current_state = "loading_screen"
                    /\ frame.state = "in_game_laning"
                 THEN t ELSE started
        appended == Append(det.state_history, frame.state)
        n == Len(appended)
        kept == IF n > HistoryCap
                THEN SubSeq(appended, n - HistoryKeep + 1, n)
                ELSE appended
    IN  [state_history |-> kept, game_start_time |-> clock,
         current_state |-> frame.state, last_detection_time |-> t]

CooldownActive_Short(start, last) == start - last < cooldown_between_shots - 1

\* `elapsed_since_last = start - self._last_process_time;
\*  if elapsed_since_last < self.config.cooldown_between_shots`
CooldownActive(start, last) == start - last < cooldown_between_shots

Rejected_StateOnly(frame) == frame.state = "not_lol"

\* `state_result.state == GameState.NOT_LOL or
\*  state_result.confidence < self.config.game_state_confidence`
Rejected(frame) ==
    frame.state = "not_lol" \/ frame.confidence < game_state_confidence

\* _call_vision and _generate_coaching take their first branch for every
\* client that has messages.create and call it without await: the call
\* blocks inside the coroutine until the answer is there.
Blocking(c) == c = "sync"

\* What `await asyncio.wait_for(call, timeout)` yields for a call that
\* takes dur seconds and ends with value: a call that never yields to the
\* event loop cannot be interrupted by the timeout and its value is
\* returned however long it took; one that does yield is cancelled at the
\* timeout.
WaitFor(blocking, dur, timeout, value) ==
    IF blocking \/ dur <= timeout THEN value ELSE "TimeoutError"

\* _extract_from_screenshot after the call: the parsed dictionary, the
\* {"raw_text": ...} dictionary of _parse_json_response when nothing
\* parses, or an {"error": ...} dictionary.
Extracted(answer) ==
    CASE answer = "payload" -> "data"
      [] answer = "malformed" -> "raw_text"
      [] answer = "TimeoutError" -> "error_timeout"
      [] OTHER -> "error"

\* LiveCoachingEngine._update_session
UpdateSession(ses, game_state, extracted) ==
    IF extracted \in {"error", "error_timeout", "mock"} THEN ses
    ELSE LET upd ==
               CASE game_state = "tab_scoreboard" /\ extracted = "data" ->
                        [ses EXCEPT !.items_history = @ + 1]
                 [] game_state = "death_screen" ->
                        [ses EXCEPT !.deaths = @ + 1]
                 [] OTHER -> ses
         IN  [upd EXCEPT !.screenshots_analyzed = @ + 1]

NoRequest ==
    [pc |-> "none", state |-> "none", call_start |-> 0, overran |-> FALSE,
     extracted |-> Pending, session_updated |-> FALSE]

NoResult == [id |-> 0, game_state |-> "none", extracted |-> Pending]

\* The CoachingResult request id returns with.
Returned(id, game_state, extracted) ==
    [id |-> id, game_state |-> game_state, extracted |-> extracted]

\* _save_screenshot: a failure of image.save is caught and logged
SaveScreenshot(o) ==
    IF disk = "ok" THEN [o EXCEPT !.screenshots = @ + 1]
    ELSE [o EXCEPT !.save_failures = @ + 1]

\* _save_coaching: a failure of open or json.dump is caught and logged
SaveCoaching(o) ==
    IF disk = "ok" THEN [o EXCEPT !.coaching = @ + 1]
    ELSE [o EXCEPT !.save_failures = @ + 1]

Delivered_SaveRaises(o) ==
    IF disk = "ok" THEN [SaveCoaching(o) EXCEPT !.notified = @ + 1]
    ELSE SaveCoaching(o)

\* Steps 5 and 6 of process_screenshot: the result is saved and the
\* coaching-ready callback is made.
Delivered(o) == [SaveCoaching(o) EXCEPT !.notified = @ + 1]

NoClassified == [id |-> 0, frame |-> [state |-> "none", confidence |-> 0]]

NoThrown == [id |-> 0, at |-> "none"]

InFlight == {i \in 1..MaxRequests : prs[i].pc \in {"vision_call", "coaching_call"}}

\* process_screenshot from its entry to its first suspension or its return.
ProcessScreenshot(frame) ==
    /\ n_requests < MaxRequests
    /\ n_requests' = n_requests + 1
    /\ initialized' = TRUE
    /\ LET id == n_requests + 1
           start == now
           det == IF initialized THEN detector ELSE NewDetector
           ses == IF initialized THEN session ELSE NewSession
           req == [NoRequest EXCEPT !.state = frame.state]
       IN  IF CooldownActive(start, last_process_time)
           THEN /\ last_result' = Returned(id, "cooldown", Pending)
                /\ detector' = det
                /\ session' = ses
                /\ UNCHANGED <<last_process_time, prs, out, classified>>
           ELSE /\ last_process_time' = start
                /\ detector' = Detect(det, frame, now)
                /\ classified' = [id |-> id, frame |-> frame]
                /\ IF Rejected(frame)
                   THEN /\ last_result' = Returned(id, "not_lol", Pending)
                        /\ session' = ses
                        /\ UNCHANGED <<prs, out>>
                   ELSE IF frame.state = "loading_screen"
                   THEN \* self.swarm.run does not exist: the AttributeError
                        \* is caught in _handle_loading_screen
                        /\ last_result' =
                               Returned(id, "loading_screen", Pending)
                        /\ session' = ses
                        /\ out' = Delivered(SaveScreenshot(out))
                        /\ UNCHANGED prs
                   ELSE IF client = "none"
                   THEN \* mock extraction, mock coaching: no suspension
                        /\ last_result' = Returned(id, frame.state, "mock")
                        /\ session' = UpdateSession(ses, frame.state, "mock")
                        /\ out' = Delivered(SaveScreenshot(out))
                        /\ UNCHANGED prs
                   ELSE /\ prs' = [prs EXCEPT ![id] =
                                     [req EXCEPT !.pc = "vision_call",
                                                 !.call_start = now]]
                        /\ session' = ses
                        /\ out' = SaveScreenshot(out)
                        /\ UNCHANGED last_result
    /\ UNCHANGED <<now, client, disk, thrown, breakers, harness_vars,
                   swarm_vars,
                   unit_vars>>

\* coach_from_screenshot, steps 1 and 2: the vision call of request id has
\* ended with `answer`; the extraction is merged into the session.
VisionCallEnds(id, answer) ==
    /\ prs[id].pc = "vision_call"
    /\ LET dur == now - prs[id].call_start
           got == Extracted(WaitFor(Blocking(client), dur, vision_timeout,
                                    answer))
           ses == UpdateSession(session, prs[id].state, got)
       IN  /\ session' = ses
           /\ prs' = [prs EXCEPT ![id] =
                        [@ EXCEPT !.pc = "coaching_call",
                                  !.overran = (dur > vision_timeout),
                                  !.extracted = got,
                                  !.session_updated = (ses # session)]]
    /\ UNCHANGED <<now, last_process_time, initialized, client, disk, classified,
                   thrown, detector,
                   last_result, n_requests, out, breakers, harness_vars,
                   swarm_vars, unit_vars>>

\* coach_from_screenshot, step 3, and the rest of process_screenshot: the
\* coaching call has ended, the package is converted, saved and delivered.
CoachingCallEnds(id) ==
    /\ prs[id].pc = "coaching_call"
    /\ LET package == WaitFor(Blocking(client), now - prs[id].call_start,
                               max_coaching_time, prs[id].state)
       IN  last_result' =
               IF package = "TimeoutError"
               THEN Returned(id, "error", prs[id].extracted)
               ELSE Returned(id, package, prs[id].extracted)
    /\ prs' = [prs EXCEPT ![id] = NoRequest]
    /\ out' = Delivered(out)
    /\ UNCHANGED <<now, last_process_time, initialized, client, disk, classified,
                   thrown, detector,
                   session, n_requests, breakers, harness_vars, swarm_vars,
                   unit_vars>>

Tick ==
    /\ now < Epoch + Horizon
    /\ now' = now + 1
    /\ UNCHANGED <<last_process_time, initialized, client, disk, classified,
                   thrown, detector, session,
                   prs, last_result, n_requests, out, breakers, harness_vars,
                   swarm_vars, unit_vars>>

Screenshot == \E f \in Frames : ProcessScreenshot(f)

\* The time of one cooldown passes
CooldownPasses ==
    /\ now + cooldown_between_shots <= Epoch + Horizon
    /\ now' = now + cooldown_between_shots
    /\ UNCHANGED <<last_process_time, initialized, client, disk, classified,
                   thrown, detector, session,
                   prs, last_result, n_requests, out, breakers, harness_vars,
                   swarm_vars, unit_vars>>

\* The disk fills up or is freed, the directory goes or comes back
DiskChanges ==
    /\ disk' = IF disk = "ok" THEN "failing" ELSE "ok"
    /\ UNCHANGED <<now, last_process_time, initialized, client, detector,
                   classified, thrown,
                   session, prs, last_result, n_requests, out, breakers,
                   harness_vars, swarm_vars, unit_vars>>

Recovered_Reraised(id, extracted) == Returned(id, "raised", extracted)

\* `except Exception as e:` of process_screenshot: what the caller gets when
\* an exception reaches it
Recovered(id, extracted) == Returned(id, "error", extracted)

\* The places inside the try of process_screenshot where a call can raise
\* before the first suspension
EntryFaults == {"detect", "on_state_change", "encode_image",
                "on_coaching_ready"}

\* The places where a call can raise after coach_from_screenshot has
\* returned
LateFaults == {"handle_live_coaching", "on_coaching_ready"}

\* process_screenshot when the call named by fault raises: state_detector
\* .detect, the state-change callback (made when the state has changed),
\* _encode_image, or the coaching-ready callback of a run that does not
\* suspend (loading screen, or no client).
ProcessScreenshotFails(frame, fault) ==
    /\ n_requests < MaxRequests
    /\ n_requests' = n_requests + 1
    /\ initialized' = TRUE
    /\ ~CooldownActive(now, last_process_time)
    /\ last_process_time' = now
    /\ LET id == n_requests + 1
           det == IF initialized THEN detector ELSE NewDetector
           ses == IF initialized THEN session ELSE NewSession
           unsuspended == frame.state = "loading_screen" \/ client = "none"
           coached == frame.state # "loading_screen"
       IN  /\ thrown' = [id |-> id, at |-> fault]
           /\ CASE fault = "detect" ->
                       /\ last_result' = Recovered(id, Pending)
                       /\ detector' = det
                       /\ session' = ses
                       /\ UNCHANGED <<classified, out>>
                [] fault = "on_state_change" ->
                       /\ det.current_state # frame.state
                       /\ last_result' = Recovered(id, Pending)
                       /\ detector' = Detect(det, frame, now)
                       /\ classified' = [id |-> id, frame |-> frame]
                       /\ session' = ses
                       /\ UNCHANGED out
                [] fault = "encode_image" ->
                       /\ ~Rejected(frame)
                       /\ last_result' = Recovered(id, Pending)
                       /\ detector' = Detect(det, frame, now)
                       /\ classified' = [id |-> id, frame |-> frame]
                       /\ session' = ses
                       /\ UNCHANGED out
                [] fault = "on_coaching_ready" ->
                       /\ ~Rejected(frame)
                       /\ unsuspended
                       /\ last_result' =
                              Recovered(id, IF coached THEN "mock"
                                            ELSE Pending)
                       /\ detector' = Detect(det, frame, now)
                       /\ classified' = [id |-> id, frame |-> frame]
                       /\ session' = IF coached
                                     THEN UpdateSession(ses, frame.state,
                                                        "mock")
                                     ELSE ses
                       /\ out' = Delivered(SaveScreenshot(out))
    /\ UNCHANGED <<now, client, disk, prs, breakers, harness_vars,
                   swarm_vars, unit_vars>>

\* The rest of process_screenshot when the call named by fault raises
\* after coach_from_screenshot has returned: the conversion of the package
\* in _handle_live_coaching, or the coaching-ready callback.
CoachingCallFails(id, fault) ==
    /\ prs[id].pc = "coaching_call"
    /\ thrown' = [id |-> id, at |-> fault]
    /\ last_result' = Recovered(id, prs[id].extracted)
    /\ prs' = [prs EXCEPT ![id] = NoRequest]
    /\ out' = IF fault = "on_coaching_ready" THEN Delivered(out) ELSE out
    /\ UNCHANGED <<now, last_process_time, initialized, client, disk,
                   classified, detector, session, n_requests, breakers,
                   harness_vars, swarm_vars, unit_vars>>

FaultyScreenshot ==
    \E f \in Frames, fault \in EntryFaults : ProcessScreenshotFails(f, fault)

CoachingFault ==
    \E i \in 1..MaxRequests, fault \in LateFaults : CoachingCallFails(i, fault)

VisionAnswer ==
    \E i \in 1..MaxRequests, a \in {"payload", "malformed", "client_error"} :
        VisionCallEnds(i, a)

CoachingAnswer == \E i \in 1..MaxRequests : CoachingCallEnds(i)

\* ------------------------------------------------------------------------
\* FinalJudgeValidatorAgent.validate
\*
\* A JudgeInput is kept by the fields validate reads. A list validate only
\* measures is kept by its length. Pydantic validates a model when it is
\* constructed and not when a field is assigned afterwards, so validate can
\* be handed values the schema would refuse; the steps that test for them
\* are modelled with the rest.
\* ------------------------------------------------------------------------

VALID_RUNE_TREES ==
    {"Precision", "Domination", "Sorcery", "Resolve", "Inspiration"}

VALID_KEYSTONES ==
    {"Conqueror", "Lethal Tempo", "Fleet Footwork", "Press the Attack",
     "Electrocute", "Dark Harvest", "Hail of Blades", "Predator",
     "Summon Aery", "Arcane Comet", "Phase Rush",
     "Grasp of the Undying", "Aftershock", "Guardian",
     "Glacial Augment", "Unsealed Spellbook", "First Strike"}

VALID_SUMMONERS ==
    {"Flash", "Teleport", "Ignite", "Exhaust", "Heal", "Barrier",
     "Cleanse", "Ghost", "Smite"}

VALID_SKILL_KEYS == {"Q", "W", "E", "R"}

VALID_START == {"Q", "W", "E"}

\* `len(fixes) <= 3  # Allow up to 3 minor fixes`
FixTolerance == 3

\* Field(min_length=...) of the lists validate measures
SummonersLen == 2
SkillLevels == 6
MinDetail == 2

\* The inputs of validate: every field takes a value of its valid set or
\* one outside it.
JudgeInputs ==
    [summoners : [1..SummonersLen -> {"Ignite", "Zap"}],
     primary_tree : {"Precision", "Chaos"},
     secondary_tree : {"Resolve", "Chaos"},
     keystone : {"Conqueror", "Omnistone", ""},
     levels_1_6 : [1..SkillLevels -> {"Q", "X"}],
     start : {"W", "R"},
     levels_1_3 : {MinDetail - 1, MinDetail},
     trade_windows : {MinDetail - 1, MinDetail},
     target_priority : {0, MinDetail},
     wards : {MinDetail - 1, MinDetail}]

ValidationFix(field, fix_applied) ==
    [field |-> field, fix_applied |-> fix_applied]

\* 1. Validate summoners: the records, then the list after replacement.
SummonerFixes(summoners) ==
    (IF summoners[1] \notin VALID_SUMMONERS
     THEN <<ValidationFix("build.summoners[0]", "Replaced with Flash")>>
     ELSE <<>>)
    \o
    (IF summoners[2] \notin VALID_SUMMONERS
     THEN <<ValidationFix("build.summoners[1]", "Replaced with Teleport")>>
     ELSE <<>>)

SummonersAfter(summoners) ==
    [i \in 1..SummonersLen |->
        IF summoners[i] \in VALID_SUMMONERS THEN summoners[i]
        ELSE IF i = 1 THEN "Flash" ELSE "Teleport"]

\* 2. Validate rune trees
PrimaryTreeFixes(tree) ==
    IF tree \notin VALID_RUNE_TREES
    THEN <<ValidationFix("build.runes.primary_tree",
                         "Kept as-is (may be new/updated tree)")>>
    ELSE <<>>

PrimaryTreeNotes(tree) ==
    IF tree \notin VALID_RUNE_TREES
    THEN <<"Rune tree not in validation set">> ELSE <<>>

SecondaryTreeFixes(tree) ==
    IF tree \notin VALID_RUNE_TREES
    THEN <<ValidationFix("build.runes.secondary_tree",
                         "Kept as-is (may be new/updated tree)")>>
    ELSE <<>>

KeystoneFixes_AsFix(keystone) ==
    IF keystone # "" /\ keystone \notin VALID_KEYSTONES
    THEN <<ValidationFix("build.runes.primary[0]", "Kept as-is")>>
    ELSE <<>>

\* 3. Validate keystone: no ValidationFix is made for it, only a note.
KeystoneFixes(keystone) == <<>>

KeystoneNotes(keystone) ==
    IF keystone # "" /\ keystone \notin VALID_KEYSTONES
    THEN <<"Keystone not in validation set">> ELSE <<>>

\* 4. Validate skill order: one record for each key outside the set.
RECURSIVE SkillKeyFixes(_, _)
SkillKeyFixes(levels, i) ==
    IF i > SkillLevels THEN <<>>
    ELSE (IF levels[i] \notin VALID_SKILL_KEYS
          THEN <<ValidationFix("build.skill_order.levels_1_6",
                               "Flagged but not auto-corrected")>>
          ELSE <<>>) \o SkillKeyFixes(levels, i + 1)

StartFixes(start) ==
    IF start \notin VALID_START
    THEN <<ValidationFix("build.skill_order.start", "Defaulted to Q")>>
    ELSE <<>>

StartAfter(start) == IF start \notin VALID_START THEN "Q" ELSE start

\* 6. and 8.: too short a list is noted
DetailNotes(n, note) == IF n < MinDetail THEN <<note>> ELSE <<>>

\* 7. Validate teamfight has target priority: the list is left empty.
TargetPriorityFixes(n) ==
    IF n = 0
    THEN <<ValidationFix("teamfight.target_priority",
                         "Added generic priority list")>>
    ELSE <<>>

\* The input as validate leaves it
InputAfter(in) ==
    [in EXCEPT !.summoners = SummonersAfter(in.summoners),
               !.start = StartAfter(in.start)]

\* 10. Schema completeness check: model_validate of the four dumped
\* outputs, after the replacements above.
SchemaValid(in) ==
    /\ in.start \in VALID_START
    /\ in.levels_1_3 >= MinDetail
    /\ in.trade_windows >= MinDetail
    /\ in.target_priority >= MinDetail
    /\ in.wards >= MinDetail

SchemaFixes(in) ==
    IF SchemaValid(in) THEN <<>>
    ELSE <<ValidationFix("schema", "Flagged for manual review")>>

Approved_Strict(schema_valid, fixes) ==
    schema_valid /\ Len(fixes) < FixTolerance

\* `approved = schema_valid and len(fixes) <= 3`
Approved(schema_valid, fixes) ==
    schema_valid /\ Len(fixes) <= FixTolerance

\* validate, from `fixes = []` to the JudgeOutput it returns
Validate(in) ==
    LET after == InputAfter(in)
        fixes == SummonerFixes(in.summoners)
                 \o PrimaryTreeFixes(in.primary_tree)
                 \o SecondaryTreeFixes(in.secondary_tree)
                 \o KeystoneFixes(in.keystone)
                 \o SkillKeyFixes(in.levels_1_6, 1)
                 \o StartFixes(in.start)
                 \o TargetPriorityFixes(in.target_priority)
                 \o SchemaFixes(after)
        notes == PrimaryTreeNotes(in.primary_tree)
                 \o KeystoneNotes(in.keystone)
                 \o DetailNotes(in.levels_1_3, "Laning plan has minimal detail")
                 \o DetailNotes(in.trade_windows, "Trade window advice is minimal")
                 \o DetailNotes(in.wards, "Ward plan is minimal")
    IN  [approved |-> Approved(SchemaValid(after), fixes),
         fixes_applied |-> fixes,
         remaining_uncertainty |-> notes,
         schema_valid |-> SchemaValid(after),
         cross_agent_consistent |-> (Len(fixes) = 0)]

NoJudge == [called |-> FALSE]

\* One call of validate: the input given, the input as it is left, and the
\* verdict. The agent keeps nothing from one call to the next, so one call
\* is followed.
JudgeValidate ==
    /\ ~judge.called
    /\ \E in \in JudgeInputs :
          judge' = [called |-> TRUE, input |-> in, after |-> InputAfter(in),
                    output |-> Validate(in)]
    /\ UNCHANGED <<breakers, harness_vars, swarm_vars, pipeline_vars,
                   classifier_vars, session_store_vars, chat_vars, role_vars,
                   watcher_vars>>

\* ------------------------------------------------------------------------
\* GameStateDetector: the six hypotheses and their composite scores
\*
\* A frame is kept by the measurements the checks take of it. A score is
\* counted in units of 1/800, in which every weight of the checks, and the
\* 0.45 * matched / 8 of the loading grid, is a whole number.
\* ------------------------------------------------------------------------

\* A confidence of 1.0
One == 800

\* A weight written in hundredths, 0.25 as Weight(25)
Weight(p) == p * (One \div 100)

Min(a, b) == IF a <= b THEN a ELSE b

\* `if <signal>: confidence += <weight>`
Add(present, p) == IF present THEN Weight(p) ELSE 0

\* Measurements a frame can give: the average brightness of the minimap
\* corner around the cutoffs 30, 35, 50 and 60, the champion slots matched
\* of the loading grid, the average saturation in hundredths around the
\* cutoffs 15 and 25, and the yes/no signals of the checks.
MinimapBrightness == {0, 32, 40, 55, 70}
GridMatched == {0, 5, 8, 10}
Saturation == {10, 20, 50}

Checks == <<"loading_screen", "tab_scoreboard", "shop_open", "death_screen",
            "post_game_stats", "in_game_laning">>

Signals(c) ==
    CASE c = "loading_screen" -> {"loading.dark_ratio", "loading.aspect"}
      [] c = "tab_scoreboard" -> {"tab.overlay", "tab.content", "tab.banding"}
      [] c = "shop_open" -> {"shop.bright", "shop.warm", "shop.gold"}
      [] c = "death_screen" -> {"death.gray", "death.variance"}
      [] c = "post_game_stats" -> {"post.header", "post.victory", "post.banding"}
      [] c = "in_game_laning" ->
             {"game.minimap_colour", "game.hud", "game.health", "game.terrain"}

\* The frame that gives no check anything but the minimap corner to go on
BlankFrame(minimap) ==
    [minimap |-> minimap, grid |-> 0, saturation |-> 50, signals |-> {}]

LoadingScore_Uncapped(f) ==
    Add("loading.dark_ratio" \in f.signals, 25)
    + (IF f.grid > 4 THEN 45 * f.grid ELSE 0)
    + Add(f.minimap < 60, 15)
    + Add("loading.aspect" \in f.signals, 10)

\* _check_loading_screen; grid_score is min(matched / 8.0, 1.0)
LoadingScore(f) ==
    Min(Add("loading.dark_ratio" \in f.signals, 25)
        + (IF f.grid > 4 THEN 45 * Min(f.grid, 8) ELSE 0)
        + Add(f.minimap < 60, 15)
        + Add("loading.aspect" \in f.signals, 10), One)

\* _check_tab_scoreboard
TabScore(f) ==
    Min(Add("tab.overlay" \in f.signals, 25)
        + Add("tab.content" \in f.signals, 15)
        + Add("tab.banding" \in f.signals, 35)
        + Add(f.minimap > 30, 15), One)

\* _check_shop_open
ShopScore(f) ==
    Min(Add("shop.bright" \in f.signals, 20)
        + Add("shop.warm" \in f.signals, 30)
        + Add("shop.gold" \in f.signals, 25)
        + Add(f.minimap > 30, 15), One)

\* _check_death_screen; the last term is the bonus for having been in game
DeathScore(f, current_state) ==
    Min((IF f.saturation < 15 THEN Weight(40)
         ELSE IF f.saturation < 25 THEN Weight(20) ELSE 0)
        + Add("death.gray" \in f.signals, 30)
        + Add("death.variance" \in f.signals, 15)
        + Add(current_state \in {"in_game_laning", "in_game_teamfight"}, 10),
        One)

\* _check_post_game
PostGameScore(f) ==
    Min(Add("post.header" \in f.signals, 20)
        + Add("post.victory" \in f.signals, 20)
        + Add("post.banding" \in f.signals, 30)
        + Add(f.minimap < 50, 10), One)

\* _check_in_game
InGameScore(f) ==
    Min(Add(f.minimap > 35 /\ "game.minimap_colour" \in f.signals, 35)
        + Add("game.hud" \in f.signals, 25)
        + Add("game.health" \in f.signals, 20)
        + Add("game.terrain" \in f.signals, 15), One)

\* ------------------------------------------------------------------------
\* GameStateDetector.detect
\* ------------------------------------------------------------------------

\* The cutoffs of _estimate_game_phase, in minutes
EarlyLaningEnd == 8
MidLaningEnd == 14
MidGameEnd == 25

EstimateGamePhase_LateFirst(det, t) ==
    IF det.game_start_time = Unset THEN "early_laning"
    ELSE IF t - det.game_start_time < EarlyLaningEnd THEN "early_laning"
    ELSE IF t - det.game_start_time < MidLaningEnd THEN "mid_game"
    ELSE IF t - det.game_start_time < MidGameEnd THEN "mid_laning"
    ELSE "late_game"

\* _estimate_game_phase, called by _check_in_game at time t
EstimateGamePhase(det, t) ==
    IF det.game_start_time = Unset THEN "early_laning"
    ELSE IF t - det.game_start_time < EarlyLaningEnd THEN "early_laning"
    ELSE IF t - det.game_start_time < MidLaningEnd THEN "mid_laning"
    ELSE IF t - det.game_start_time < MidGameEnd THEN "mid_game"
    ELSE "late_game"

Candidate(state, confidence, phase) ==
    [state |-> state, confidence |-> confidence, phase |-> phase]

\* `candidates = [...]`, the six checks in the order detect runs them
Candidates(f, det, t) ==
    <<Candidate("loading_screen", LoadingScore(f), "pre_game"),
      Candidate("tab_scoreboard", TabScore(f), None),
      Candidate("shop_open", ShopScore(f), None),
      Candidate("death_screen", DeathScore(f, det.current_state), None),
      Candidate("post_game_stats", PostGameScore(f), "post_game"),
      Candidate("in_game_laning", InGameScore(f), EstimateGamePhase(det, t))>>

Best_LastWins(cands) ==
    cands[CHOOSE i \in 1..Len(cands) :
            /\ \A j \in 1..Len(cands) : cands[j].confidence <= cands[i].confidence
            /\ \A j \in (i + 1)..Len(cands) :
                   cands[j].confidence < cands[i].confidence]

\* `candidates.sort(key=lambda r: r.confidence, reverse=True);
\*  best = candidates[0]`: the sort is stable, so of the candidates with
\* the highest confidence the one checked first is taken.
Best(cands) ==
    cands[CHOOSE i \in 1..Len(cands) :
            /\ \A j \in 1..Len(cands) : cands[j].confidence <= cands[i].confidence
            /\ \A j \in 1..(i - 1) : cands[j].confidence < cands[i].confidence]

\* _apply_temporal_context, "Track state duration": the time since the
\* newest history entry when that entry has the state now detected.
StateDuration(det, state, t) ==
    IF det.state_history # <<>>
       /\ det.state_history[Len(det.state_history)] = state
    THEN t - det.last_detection_time
    ELSE 0

\* The GameStateResult detect returns for frame f at time t
DetectResult(det, f, t) ==
    LET cands == Candidates(f, det, t)
        best == Best(cands)
    IN  [state |-> best.state,
         confidence |-> best.confidence,
         phase |-> IF det.current_state = "loading_screen"
                      /\ best.state = "in_game_laning"
                   THEN "early_laning" ELSE best.phase,
         previous_state |-> det.current_state,
         state_duration_seconds |-> StateDuration(det, best.state, t),
         scores |-> [i \in 1..Len(cands) |-> cands[i].confidence]]

NoneSeen == [kind |-> "none", timeline |-> None, log |-> <<>>]

\* One detect call on clf: the detector after it and the result returned.
\* timeline is the phase of the newest in-game result, log the states
\* detected so far.
DetectCall(f, kind) ==
    /\ LET res == DetectResult(clf, f, clk)
       IN  /\ clf' = Detect(clf, res, clk)
           /\ seen' = [kind |-> kind,
                       timeline |-> IF res.state = "in_game_laning"
                                    THEN res.phase ELSE seen.timeline,
                       log |-> Append(seen.log, res.state),
                       result |-> res]
    /\ n_detects' = n_detects + 1
    /\ UNCHANGED <<clk, shown, n_changes, judge_vars,
                   session_store_vars, chat_vars, breakers, harness_vars,
                   swarm_vars, pipeline_vars, role_vars, watcher_vars>>

\* Frames one takes screenshots of
LoadingFrame ==
    [BlankFrame(0) EXCEPT !.grid = 10,
         !.signals = {"loading.dark_ratio", "loading.aspect"}]

InGameFrame ==
    [BlankFrame(70) EXCEPT
         !.signals = {"game.minimap_colour", "game.hud", "game.health",
                      "game.terrain"}]

SampleFrames == {LoadingFrame, InGameFrame}

\* The checks a frame gives something other than the minimap corner
ActiveChecks(f) ==
    {Checks[i] : i \in {k \in 1..Len(Checks) : Signals(Checks[k]) \cap f.signals # {}}}
    \cup (IF f.grid > 0 THEN {"loading_screen"} ELSE {})
    \cup (IF f.saturation < 25 THEN {"death_screen"} ELSE {})

RECURSIVE SignalSets(_)
SignalSets(k) ==
    IF k = 0 THEN {{}}
    ELSE {F \cup S : F \in SignalSets(k - 1),
                     S \in UNION {SUBSET Signals(Checks[i]) : i \in 1..Len(Checks)}}

\* Every frame that gives at most MaxActiveChecks checks something
ProbeFrames ==
    {f \in [minimap : MinimapBrightness, grid : GridMatched,
            saturation : Saturation, signals : SignalSets(MaxActiveChecks)] :
        Cardinality(ActiveChecks(f)) <= MaxActiveChecks}

\* detect on a frame of the running game, for a detector that has seen the
\* game before it is probed
WarmUp ==
    /\ n_detects = 0
    /\ DetectCall(InGameFrame, "sample")

\* detect on any frame, once
Probe ==
    /\ n_detects <= 1
    /\ seen.kind # "probe"
    /\ \E f \in ProbeFrames : DetectCall(f, "probe")

\* detect on a screenshot taken now
ClassifierDetect ==
    /\ n_detects < MaxDetects
    /\ \E f \in SampleFrames : DetectCall(f, "sample")

ClockTick ==
    /\ clk < ClockHorizon
    /\ clk' = clk + 1
    /\ UNCHANGED <<clf, seen, n_detects, shown, n_changes, judge_vars,
                   session_store_vars, chat_vars,
                   breakers, harness_vars, swarm_vars, pipeline_vars,
                   role_vars, watcher_vars>>

\* detect on what the screen shows, call after call
RepeatedDetect ==
    /\ n_detects < MaxHistoryDetects
    /\ DetectCall(shown, "sample")

ScreenChanges ==
    /\ n_changes < MaxScreenChanges
    /\ n_changes' = n_changes + 1
    /\ shown' \in SampleFrames \ {shown}
    /\ UNCHANGED <<clf, seen, clk, n_detects, judge_vars,
                   session_store_vars, chat_vars, breakers,
                   harness_vars, swarm_vars, pipeline_vars, role_vars,
                   watcher_vars>>

\* ------------------------------------------------------------------------
\* GameSession and LiveCoachingEngine._update_session
\* ------------------------------------------------------------------------

\* The dictionary {}
EmptyDict == [k \in {} |-> ""]

\* GameSession.__init__; start_time and game_id None as Unset, game_id
\* "game_<n>" kept as n
NewGameSession ==
    [game_id |-> Unset, start_time |-> Unset,
     blue_team |-> <<>>, red_team |-> <<>>,
     user_champion |-> "", user_role |-> "", user_team |-> "",
     lane_opponent |-> "", role_assignments |-> EmptyDict,
     user_items |-> <<>>, user_items_history |-> <<>>,
     user_gold |-> 0, user_cs |-> 0, user_level |-> 1,
     user_kda |-> <<0, 0, 0>>,
     enemy_items |-> EmptyDict, enemy_levels |-> EmptyDict,
     enemy_kda |-> EmptyDict,
     deaths |-> <<>>, objectives_taken |-> <<>>,
     screenshots_analyzed |-> 0, coaching_advice_given |-> <<>>,
     original_build_plan |-> EmptyDict, adjusted_build_plan |-> EmptyDict,
     build_adjustments |-> <<>>]

\* The keys an extraction is read for, by the state it was extracted in
TabKeys == {"user_items", "user_cs", "user_kda", "enemy_items"}
ShopKeys == {"current_items", "current_gold"}
InGameKeys == {"level", "current_items"}
DeathKeys == {"killed_by", "advice"}
ExtractionKeys == TabKeys \cup ShopKeys \cup InGameKeys \cup DeathKeys
                      \cup {"game_time", "damage_breakdown"}

\* What a key that is not in the dictionary reads as here: `d.get(key)` is
\* None, and no other read of the key is made without the key being there.
Absent ==
    [user_items |-> <<>>, user_cs |-> 0, user_kda |-> <<0, 0, 0>>,
     enemy_items |-> EmptyDict, current_items |-> <<>>, current_gold |-> 0,
     level |-> 1, killed_by |-> None, advice |-> None, game_time |-> None,
     damage_breakdown |-> None]

\* Values the keys of an extraction can hold
ExtractionValues ==
    [user_items : {<<"Doran's Blade", "Boots">>},
     user_cs : {42},
     user_kda : {<<1, 2, 0>>},
     enemy_items : {[c \in {"Darius"} |-> <<"Plated Steelcaps">>]},
     current_items : {<<"Long Sword">>},
     current_gold : {900},
     level : {6},
     killed_by : {"Elise"},
     advice : {"Ward river"},
     game_time : {None},
     damage_breakdown : {None}]

\* The dictionary with the keys K (and, flagged, a true "error" or "mock"),
\* holding the values v
Extraction(K, v) ==
    [f \in {"keys"} \cup ExtractionKeys |->
        IF f = "keys" THEN K
        ELSE IF f \in K THEN v[f] ELSE Absent[f]]

Extractions(keys) ==
    {Extraction(K, v) : K \in SUBSET keys, v \in ExtractionValues}
    \cup {Extraction(keys \cup {flag}, v) :
              flag \in {"error", "mock"}, v \in ExtractionValues}

\* A coaching package, by the top-level keys it has; teams, user and build
\* are complete dictionaries where they are there
Packages ==
    {[keys |-> K,
      teams |-> [blue |-> <<"Garen", "Ahri">>, red |-> <<"Darius", "Zed">>,
                 role_inference |-> [c \in {"Garen"} |-> "Top"]],
      user |-> [champion |-> ch, role |-> "Top", lane_opponent |-> "Darius"],
      build |-> [c \in {"core"} |-> "Trinity Force"]] :
        K \in SUBSET {"teams", "user", "build"}, ch \in {"Garen"}}

Contains(seq, x) == \E i \in 1..Len(seq) : seq[i] = x

\* GameSession.update_from_loading at time t: every field is assigned, from
\* the package or, for a key that is not there, from the default of .get
update_from_loading(s, pkg, t) ==
    LET blue == IF "teams" \in pkg.keys THEN pkg.teams.blue ELSE <<>>
        champion == IF "user" \in pkg.keys THEN pkg.user.champion ELSE ""
        build == IF "build" \in pkg.keys THEN pkg.build ELSE EmptyDict
    IN  [s EXCEPT
           !.start_time = t,
           !.game_id = t,
           !.blue_team = blue,
           !.red_team = IF "teams" \in pkg.keys THEN pkg.teams.red ELSE <<>>,
           !.role_assignments = IF "teams" \in pkg.keys
                                THEN pkg.teams.role_inference ELSE EmptyDict,
           !.user_champion = champion,
           !.user_role = IF "user" \in pkg.keys THEN pkg.user.role ELSE "",
           !.lane_opponent = IF "user" \in pkg.keys
                             THEN pkg.user.lane_opponent ELSE "",
           !.user_team = IF Contains(blue, champion) THEN "blue" ELSE "red",
           !.original_build_plan = build,
           !.adjusted_build_plan = build]

\* `self.enemy_items.update(tab_analysis["enemy_items"])`
DictUpdate(old, new) ==
    [c \in DOMAIN old \cup DOMAIN new |->
        IF c \in DOMAIN new THEN new[c] ELSE old[c]]

update_from_tab_Reset(s, tab, t) ==
    [s EXCEPT
       !.user_items = tab.user_items,
       !.user_items_history =
           IF "user_items" \in tab.keys
           THEN Append(@, [time |-> t, items |-> tab.user_items]) ELSE @,
       !.user_cs = tab.user_cs,
       !.user_kda = tab.user_kda,
       !.enemy_items = tab.enemy_items]

\* GameSession.update_from_tab at time t
update_from_tab(s, tab, t) ==
    [s EXCEPT
       !.user_items = IF "user_items" \in tab.keys THEN tab.user_items ELSE @,
       !.user_items_history =
           IF "user_items" \in tab.keys
           THEN Append(@, [time |-> t, items |-> tab.user_items]) ELSE @,
       !.user_cs = IF "user_cs" \in tab.keys THEN tab.user_cs ELSE @,
       !.user_kda = IF "user_kda" \in tab.keys THEN tab.user_kda ELSE @,
       !.enemy_items = IF "enemy_items" \in tab.keys
                       THEN DictUpdate(@, tab.enemy_items) ELSE @]

\* GameSession.update_from_death at time t
update_from_death(s, death_analysis, t) ==
    [s EXCEPT !.deaths =
        Append(@, [time |-> t,
                   game_time |-> death_analysis.game_time,
                   killed_by |-> death_analysis.killed_by,
                   damage_breakdown |-> death_analysis.damage_breakdown,
                   advice |-> death_analysis.advice])]

\* `if extracted.get("error") or extracted.get("mock"): return`
Flagged(extracted) == extracted.keys \cap {"error", "mock"} # {}

\* LiveCoachingEngine._update_session at time t, field by field
UpdateSessionStore(s, game_state, extracted, t) ==
    IF Flagged(extracted) THEN s
    ELSE LET upd ==
               CASE game_state = "tab_scoreboard" ->
                        update_from_tab(s, extracted, t)
                 [] game_state = "shop_open" ->
                        [s EXCEPT
                           !.user_items =
                               IF "current_items" \in extracted.keys
                               THEN extracted.current_items ELSE @,
                           !.user_gold =
                               IF "current_gold" \in extracted.keys
                               THEN extracted.current_gold ELSE @]
                 [] game_state = "death_screen" ->
                        update_from_death(s, extracted, t)
                 [] game_state = "in_game_laning" ->
                        [s EXCEPT
                           !.user_level =
                               IF "level" \in extracted.keys
                               THEN extracted.level ELSE @,
                           !.user_items =
                               IF "current_items" \in extracted.keys
                               THEN extracted.current_items ELSE @]
                 [] OTHER -> s
         IN  [upd EXCEPT !.screenshots_analyzed = @ + 1]

\* The keys _update_session and update_from_tab look for in an extraction
\* of a state
KeysOf(game_state) ==
    CASE game_state = "tab_scoreboard" -> TabKeys
      [] game_state = "shop_open" -> ShopKeys
      [] game_state = "death_screen" -> DeathKeys
      [] game_state = "in_game_laning" -> InGameKeys
      [] OTHER -> {}

UpdateStates ==
    {"tab_scoreboard", "shop_open", "death_screen", "in_game_laning",
     "loading_screen"}

NoUpdate == [op |-> "none", state |-> "none", input |-> "none"]

Updated(op, state, input, after) ==
    /\ n_updates < MaxUpdates
    /\ store' = after
    /\ last_update' = [op |-> op, state |-> state, input |-> input]
    /\ n_updates' = n_updates + 1
    /\ UNCHANGED <<wall, lifecycle, advice, chat_vars, judge_vars, classifier_vars,
                   breakers, harness_vars, swarm_vars, pipeline_vars,
                   role_vars, watcher_vars>>

\* session.update_from_loading(pkg_dict)
SessionUpdateFromLoading ==
    \E pkg \in Packages :
        Updated("update_from_loading", "loading_screen", pkg,
                update_from_loading(store, pkg, wall))

\* session.update_from_tab(tab_analysis)
SessionUpdateFromTab ==
    \E tab \in Extractions(TabKeys) :
        Updated("update_from_tab", "tab_scoreboard", tab,
                update_from_tab(store, tab, wall))

\* self._update_session(game_state, extracted)
EngineUpdateSession ==
    \E game_state \in UpdateStates :
        \E extracted \in Extractions(KeysOf(game_state)) :
            Updated("_update_session", game_state, extracted,
                    UpdateSessionStore(store, game_state, extracted, wall))

\* time.time() moves on between two updates
WallTick ==
    /\ wall < MaxWall
    /\ wall' = wall + 1
    /\ UNCHANGED <<store, last_update, n_updates, lifecycle, advice, chat_vars, judge_vars,
                   classifier_vars, breakers, harness_vars, swarm_vars,
                   pipeline_vars, role_vars, watcher_vars>>

\* ------------------------------------------------------------------------
\* One GameSession over the screenshots of several games
\* ------------------------------------------------------------------------

\* `"death_history": self.deaths[-3:]`
DeathHistoryWindow == 3

\* Python's seq[-n:] for n > 0
LastN(seq, n) ==
    IF Len(seq) <= n THEN seq ELSE SubSeq(seq, Len(seq) - n + 1, Len(seq))

\* GameSession.get_context_for_coaching at time t, the entries that are
\* not plain copies of a field
ContextForCoaching(s, t) ==
    [game_id |-> s.game_id,
     elapsed_minutes |-> IF s.start_time = Unset \/ s.start_time = 0 THEN 0
                         ELSE (t - s.start_time) \div 60,
     deaths_this_game |-> Len(s.deaths),
     build_plan |-> s.adjusted_build_plan,
     death_history |-> LastN(s.deaths, DeathHistoryWindow)]

\* GameStateDetector.__init__: `_current_state = GameState.NOT_LOL`
NoLifecycle == [previous |-> "not_lol", current |-> "not_lol"]

\* The extractions a screenshot of a state is coached with here: every key
\* the state is read for, or none
CoachedExtractions(game_state) ==
    {Extraction(K, v) : K \in {{}, KeysOf(game_state)}, v \in ExtractionValues}

CoachedStates == {"tab_scoreboard", "death_screen", "post_game_stats"}

Coached(op, state, input, after) ==
    /\ n_updates < MaxLifetimeUpdates
    /\ store' = after
    /\ last_update' = [op |-> op, state |-> state, input |-> input]
    /\ lifecycle' = [previous |-> lifecycle.current, current |-> state]
    /\ n_updates' = n_updates + 1
    /\ UNCHANGED <<wall, advice, chat_vars, judge_vars, classifier_vars, breakers,
                   harness_vars, swarm_vars, pipeline_vars, role_vars,
                   watcher_vars>>

\* _handle_live_coaching for a screenshot of game_state:
\* coach_from_screenshot extracts and calls _update_session
HandleLiveCoaching ==
    \E game_state \in CoachedStates :
        \E extracted \in CoachedExtractions(game_state) :
            Coached("_update_session", game_state, extracted,
                    UpdateSessionStore(store, game_state, extracted, wall))

\* _handle_loading_screen with a swarm whose run gives a package: the
\* session is initialised from it, `pkg_dict` being {} for a package that
\* is neither a model nor a dictionary
HandleLoadingScreen ==
    \E pkg \in {p \in Packages : p.keys \in {{}, {"teams", "user", "build"}}} :
        Coached("update_from_loading", "loading_screen", pkg,
                update_from_loading(store, pkg, wall))

\* _handle_loading_screen with a swarm whose run raises (the session is not
\* touched) and without a swarm (coach_from_screenshot with state
\* loading_screen)
HandleLoadingScreenUnplanned ==
    \/ Coached("swarm_failed", "loading_screen", "none", store)
    \/ \E extracted \in CoachedExtractions("loading_screen") :
           Coached("_update_session", "loading_screen", extracted,
                   UpdateSessionStore(store, "loading_screen", extracted, wall))

\* ------------------------------------------------------------------------
\* LiveCoachingEngine.coach_from_screenshot, steps 1 and 2: the vision
\* answer is parsed and merged into the session
\* ------------------------------------------------------------------------

\* An extraction that holds none of the keys a session update reads
NoPayload(K) == Extraction(K, CHOOSE v \in ExtractionValues : TRUE)

\* What `await asyncio.wait_for(self._call_vision(...), timeout=10.0)` ends
\* with. A text is kept by how _parse_json_response reads it: "fenced" has
\* a JSON object in a ``` block, "json" is a JSON object, "embedded" has
\* one between the first { and the last } of other text, "truncated" has a
\* { and a } with no JSON between them, "prose" has no brace, "empty" is
\* "", and "json_list" is JSON that is not an object.
ParsedKinds == {"fenced", "json", "embedded"}
UnparsedKinds == {"truncated", "prose", "empty"}
FailureKinds == {"TimeoutError", "Exception"}

Responses(game_state) ==
    {[kind |-> k, payload |-> e] :
        k \in ParsedKinds, e \in CoachedExtractions(game_state)}
    \cup {[kind |-> k, payload |-> NoPayload({})] :
              k \in UnparsedKinds \cup FailureKinds \cup {"json_list"}}

\* _parse_json_response: the value returned and whether it is a dict
ParseJsonResponse(response) ==
    CASE response.kind \in ParsedKinds ->
             [is_dict |-> TRUE, value |-> response.payload]
      [] response.kind = "json_list" ->
             [is_dict |-> FALSE, value |-> NoPayload({})]
      [] OTHER ->
             [is_dict |-> TRUE, value |-> NoPayload({"raw_text"})]

\* _extract_from_screenshot with client c
ExtractFromScreenshot(c, response) ==
    IF c = "none"
    THEN [is_dict |-> TRUE, value |-> NoPayload({"mock", "game_state"})]
    ELSE IF response.kind \in FailureKinds
    THEN [is_dict |-> TRUE, value |-> NoPayload({"error", "game_state"})]
    ELSE ParseJsonResponse(response)

\* coach_from_screenshot up to step 3: `extracted.get` of _update_session
\* raises AttributeError for a value that is no dict, and nothing between
\* there and the caller catches it
CoachFromScreenshot ==
    \E game_state \in UpdateStates \cup {"post_game_stats"} :
        \E response \in Responses(game_state) :
            LET got == ExtractFromScreenshot(client, response)
            IN  /\ n_updates < MaxUpdates
                /\ n_updates' = n_updates + 1
                /\ lifecycle' = [previous |-> lifecycle.current,
                                 current |-> game_state]
                /\ IF got.is_dict
                   THEN /\ store' = UpdateSessionStore(store, game_state,
                                                       got.value, wall)
                        /\ last_update' = [op |-> "coach_from_screenshot",
                                           state |-> game_state,
                                           input |-> response]
                   ELSE /\ store' = store
                        /\ last_update' = [op |-> "AttributeError",
                                           state |-> game_state,
                                           input |-> response]
                /\ UNCHANGED <<wall, advice, chat_vars, judge_vars, classifier_vars,
                               breakers, harness_vars, swarm_vars,
                               pipeline_vars, role_vars, watcher_vars>>

\* ------------------------------------------------------------------------
\* GameSession.should_adjust_build
\* ------------------------------------------------------------------------

\* `armor_items` and `mr_items`
armor_items ==
    {"plated steelcaps", "warden's mail", "bramble vest", "frozen heart",
     "thornmail", "randuin's omen"}

mr_items ==
    {"mercury's treads", "spectre's cowl", "hexdrinker", "maw of malmortius",
     "spirit visage", "force of nature"}

\* Item names as an extraction can spell them
ItemNames ==
    {"Plated Steelcaps", "plated steelcaps", "THORNMAIL", "Steelcaps",
     "Mercury's Treads", "Hexdrinker", "Dagger"}

\* str.lower on the item names
Lower(item) ==
    CASE item = "Plated Steelcaps" -> "plated steelcaps"
      [] item = "THORNMAIL" -> "thornmail"
      [] item = "Steelcaps" -> "steelcaps"
      [] item = "Mercury's Treads" -> "mercury's treads"
      [] item = "Hexdrinker" -> "hexdrinker"
      [] item = "Dagger" -> "dagger"
      [] OTHER -> item

AnyItemIn_CaseSensitive(enemy_items, list) ==
    \E i \in 1..Len(enemy_items) : enemy_items[i] \in list

\* `any(item in enemy_items_lower for item in <list>)`
AnyItemIn(enemy_items, list) ==
    \E i \in 1..Len(enemy_items) : Lower(enemy_items[i]) \in list

\* `deaths >= 3`
DefensiveDeaths == 3

DyingFrequently_Strict(kda) ==
    kda[2] > DefensiveDeaths /\ kda[2] > kda[1] + kda[3]

\* `deaths >= 3 and deaths > kills + assists`
DyingFrequently(kda) ==
    kda[2] >= DefensiveDeaths /\ kda[2] > kda[1] + kda[3]

ShouldAdjustBuild_Recording(s) ==
    LET laner == s.lane_opponent # "" /\ s.lane_opponent \in DOMAIN s.enemy_items
        reasons ==
            (IF laner /\ AnyItemIn(s.enemy_items[s.lane_opponent], armor_items)
             THEN <<"enemy_building_armor">> ELSE <<>>)
            \o (IF DyingFrequently(s.user_kda)
                THEN <<"dying_frequently">> ELSE <<>>)
    IN  [session |-> [s EXCEPT !.build_adjustments = Append(@, reasons)],
         adjust |-> Len(reasons) > 0, reasons |-> reasons]

\* should_adjust_build on session s: the session it leaves, the flag and
\* the reasons that are joined into the string it returns
ShouldAdjustBuild(s) ==
    LET laner == s.lane_opponent # "" /\ s.lane_opponent \in DOMAIN s.enemy_items
        reasons ==
            (IF laner /\ AnyItemIn(s.enemy_items[s.lane_opponent], armor_items)
             THEN <<"enemy_building_armor">> ELSE <<>>)
            \o (IF laner /\ AnyItemIn(s.enemy_items[s.lane_opponent], mr_items)
                THEN <<"enemy_building_mr">> ELSE <<>>)
            \o (IF DyingFrequently(s.user_kda)
                THEN <<"dying_frequently">> ELSE <<>>)
    IN  [session |-> s, adjust |-> Len(reasons) > 0, reasons |-> reasons]

NoAdvice == [called |-> FALSE, adjust |-> FALSE, reasons |-> <<>>, updates |-> 0]

\* The enemy items and the KDA a scoreboard can show
ScoreboardItems ==
    {[c \in {"Darius"} |-> <<"Plated Steelcaps", "Dagger">>],
     [c \in {"Darius"} |-> <<"THORNMAIL", "Mercury's Treads">>],
     [c \in {"Darius"} |-> <<"Hexdrinker">>],
     [c \in {"Darius"} |-> <<"Steelcaps", "Dagger">>],
     [c \in {"Zed"} |-> <<"plated steelcaps">>],
     [c \in {"Darius", "Zed"} |->
         IF c = "Zed" THEN <<"Mercury's Treads">> ELSE <<"Dagger">>]}

ScoreboardKDA ==
    {<<3, 0, 1>>, <<0, 4, 0>>, <<2, 1, 3>>, <<0, 3, 0>>, <<2, 3, 1>>}

Scoreboards ==
    {[NoPayload({"enemy_items", "user_kda"}) EXCEPT
          !.enemy_items = items, !.user_kda = kda] :
        items \in ScoreboardItems, kda \in ScoreboardKDA}

\* The session is set up by the loading screen and a scoreboard
BuildSessionUpdate ==
    \/ \E pkg \in {p \in Packages : p.keys \in {{}, {"teams", "user", "build"}}} :
           Updated("update_from_loading", "loading_screen", pkg,
                   update_from_loading(store, pkg, wall))
    \/ \E tab \in Scoreboards :
           Updated("update_from_tab", "tab_scoreboard", tab,
                   update_from_tab(store, tab, wall))

\* session.should_adjust_build()
CheckBuild ==
    LET got == ShouldAdjustBuild(store)
    IN  /\ store' = got.session
        /\ advice' = [called |-> TRUE, adjust |-> got.adjust,
                      reasons |-> got.reasons, updates |-> n_updates]
        /\ UNCHANGED <<last_update, n_updates, wall, lifecycle, chat_vars, judge_vars,
                       classifier_vars, breakers, harness_vars, swarm_vars,
                       pipeline_vars, role_vars, watcher_vars>>

\* ------------------------------------------------------------------------
\* ChatSession.add_message
\*
\* A ChatMessage is kept by its id, its role and is_pinned. The session is
\* made with max_history = ChatMaxHistory.
\* ------------------------------------------------------------------------

\* Python's seq[start:]
PySliceFrom(seq, start) ==
    LET from == IF start >= 0 THEN start
                ELSE IF Len(seq) + start > 0 THEN Len(seq) + start ELSE 0
    IN  IF from >= Len(seq) THEN <<>> ELSE SubSeq(seq, from + 1, Len(seq))

IsPinned(m) == m.is_pinned
NotPinned(m) == ~m.is_pinned

add_message_TrimOldest(c, msg) ==
    LET appended == Append(c.messages, msg)
    IN  [messages |-> IF Len(appended) > ChatMaxHistory
                      THEN PySliceFrom(appended, -ChatMaxHistory)
                      ELSE appended,
         unread_count |-> c.unread_count]

\* ChatSession.add_message: the session it leaves
add_message(c, msg) ==
    LET appended == Append(c.messages, msg)
        unread == IF msg.role \in {"assistant", "coaching"}
                  THEN c.unread_count + 1 ELSE c.unread_count
        pinned == SelectSeq(appended, IsPinned)
        unpinned == SelectSeq(appended, NotPinned)
    IN  [messages |-> IF Len(appended) > ChatMaxHistory
                      THEN pinned \o PySliceFrom(unpinned,
                                        -(ChatMaxHistory - Len(pinned)))
                      ELSE appended,
         unread_count |-> unread]

\* ChatSession.__init__: the welcome message is added
NewChatSession ==
    add_message([messages |-> <<>>, unread_count |-> 0],
                [id |-> 0, role |-> "system", is_pinned |-> FALSE])

\* A user's question, or a piece of coaching that is pinned
AddMessageUpTo(limit) ==
    /\ n_messages < limit
    /\ \E kind \in {[role |-> "user", is_pinned |-> FALSE],
                    [role |-> "coaching", is_pinned |-> TRUE]} :
           LET msg == [id |-> n_messages + 1, role |-> kind.role,
                       is_pinned |-> kind.is_pinned]
           IN  /\ chat' = add_message(chat, msg)
               /\ pinned_ids' = IF msg.is_pinned
                                THEN pinned_ids \cup {msg.id} ELSE pinned_ids
    /\ n_messages' = n_messages + 1
    /\ UNCHANGED <<returned_id, judge_vars, classifier_vars,
                   session_store_vars, breakers, harness_vars, swarm_vars,
                   pipeline_vars, role_vars, watcher_vars>>

AddMessage == AddMessageUpTo(MaxMessages)

AddPolledMessage == AddMessageUpTo(MaxPolledMessages)

\* get_messages of create_chat_server: the "messages" of the response to
\* GET /api/messages?after=<after_id>; no after, or an empty one, is Unset
get_messages(c, after_id) ==
    LET msgs == c.messages
        at == {i \in 1..Len(msgs) : msgs[i].id = after_id}
    IN  IF after_id = Unset THEN msgs
        ELSE IF at = {} THEN <<>>
        ELSE LET first == CHOOSE i \in at : \A j \in at : i <= j
             IN  SubSeq(msgs, first + 1, Len(msgs))

\* A client polls with no id or with an id it was given, and keeps one of
\* the ids of the response
GetMessages ==
    /\ \E after_id \in {Unset, returned_id} :
           LET response == get_messages(chat, after_id)
           IN  /\ response # <<>>
               /\ \E i \in 1..Len(response) :
                      returned_id' = response[i].id
    /\ UNCHANGED <<chat, n_messages, pinned_ids, judge_vars, classifier_vars,
                   session_store_vars, breakers, harness_vars, swarm_vars,
                   pipeline_vars, role_vars, watcher_vars>>

\* ------------------------------------------------------------------------
\* RoleInferenceEngineAgent
\*
\* Probabilities are in hundredths. A champion without an entry in
\* ROLE_PRIORS has no priors. "" is the empty slot of the roles dict and
\* the None of user_champion and user_role.
\* ------------------------------------------------------------------------

RoleKeys == <<"TOP", "JG", "MID", "ADC", "SUP">>

ROLE_MAP(role_name) ==
    CASE role_name = "Top" -> "TOP"
      [] role_name = "Jungle" -> "JG"
      [] role_name = "Mid" -> "MID"
      [] role_name = "ADC" -> "ADC"
      [] role_name = "Support" -> "SUP"
      [] OTHER -> ""

\* ROLE_PRIORS.get(champ, {}), its items in the order of the dict
ROLE_PRIORS(champ) ==
    CASE champ = "Darius" -> <<<<"Top", 92>>, <<"Mid", 5>>, <<"Jungle", 3>>>>
      [] champ = "Garen" -> <<<<"Top", 90>>, <<"Mid", 8>>, <<"Support", 2>>>>
      [] champ = "Sett" ->
             <<<<"Top", 60>>, <<"Support", 20>>, <<"Jungle", 12>>,
               <<"Mid", 8>>>>
      [] champ = "Irelia" -> <<<<"Top", 55>>, <<"Mid", 43>>, <<"Jungle", 2>>>>
      [] champ = "Yasuo" -> <<<<"Mid", 60>>, <<"Top", 25>>, <<"ADC", 15>>>>
      [] champ = "Yone" -> <<<<"Mid", 65>>, <<"Top", 30>>, <<"ADC", 5>>>>
      [] champ = "Lee Sin" -> <<<<"Jungle", 90>>, <<"Top", 5>>, <<"Mid", 5>>>>
      [] champ = "Akali" -> <<<<"Mid", 65>>, <<"Top", 33>>, <<"Jungle", 2>>>>
      [] champ = "Lucian" -> <<<<"ADC", 60>>, <<"Mid", 35>>, <<"Top", 5>>>>
      [] champ = "Nautilus" ->
             <<<<"Support", 85>>, <<"Jungle", 8>>, <<"Top", 7>>>>
      [] OTHER -> <<>>

\* list.remove(x): without the first x
ListRemove(seq, x) ==
    LET at == CHOOSE i \in 1..Len(seq) :
                  seq[i] = x /\ \A j \in 1..(i - 1) : seq[j] # x
    IN  SubSeq(seq, 1, at - 1) \o SubSeq(seq, at + 1, Len(seq))

RECURSIVE FillOpenSlots(_, _, _)
\* for role_key in roles: if roles[role_key] == "" and available:
\*     roles[role_key] = available.pop(0)
FillOpenSlots(roles, available, k) ==
    IF k > Len(RoleKeys) THEN [roles |-> roles, available |-> available]
    ELSE IF roles[RoleKeys[k]] = "" /\ available # <<>>
         THEN FillOpenSlots([roles EXCEPT ![RoleKeys[k]] = Head(available)],
                            Tail(available), k + 1)
         ELSE FillOpenSlots(roles, available, k + 1)

RECURSIVE Flatten(_)
Flatten(seqs) ==
    IF seqs = <<>> THEN <<>> ELSE Head(seqs) \o Flatten(Tail(seqs))

\* The (champion, role, probability) triples in the order in which the two
\* nested loops visit them
Visited(available) ==
    Flatten([i \in 1..Len(available) |->
                [j \in 1..Len(ROLE_PRIORS(available[i])) |->
                    [champ |-> available[i],
                     role_key |-> ROLE_MAP(ROLE_PRIORS(available[i])[j][1]),
                     prob |-> ROLE_PRIORS(available[i])[j][2]]]])

BestOpen_AnySlot(roles, available) ==
    LET v == Visited(available)
        open == {i \in 1..Len(v) : v[i].role_key # ""}
    IN  IF open = {} THEN {}
        ELSE LET first == CHOOSE i \in open :
                              \A j \in open :
                                  \/ v[j].prob < v[i].prob
                                  \/ v[j].prob = v[i].prob /\ i <= j
             IN  {v[first]}

\* best_champ and best_role after the nested loops: the first triple of an
\* open role with the highest probability, if there is one
BestOpen(roles, available) ==
    LET v == Visited(available)
        open == {i \in 1..Len(v) :
                    v[i].role_key # "" /\ roles[v[i].role_key] = ""}
    IN  IF open = {} THEN {}
        ELSE LET first == CHOOSE i \in open :
                              \A j \in open :
                                  \/ v[j].prob < v[i].prob
                                  \/ v[j].prob = v[i].prob /\ i <= j
             IN  {v[first]}

RECURSIVE Greedy(_, _, _)
\* for _ in range(5): ...
Greedy(roles, available, rounds) ==
    IF rounds = 0 \/ available = <<>>
    THEN [roles |-> roles, available |-> available]
    ELSE LET best == BestOpen(roles, available)
         IN  IF best # {}
             THEN LET b == CHOOSE x \in best : TRUE
                  IN  Greedy([roles EXCEPT ![b.role_key] = b.champ],
                             ListRemove(available, b.champ), rounds - 1)
             ELSE LET filled == FillOpenSlots(roles, available, 1)
                  IN  Greedy(filled.roles, filled.available, rounds - 1)

EmptyRoles == [k \in {RoleKeys[i] : i \in 1..Len(RoleKeys)} |-> ""]

InTeam(champ, team) == \E i \in 1..Len(team) : team[i] = champ

\* RoleInferenceEngineAgent._assign_roles: the RoleAssignment it returns
assign_roles(team, user_champion, user_role) ==
    LET pin == /\ user_champion # ""
               /\ InTeam(user_champion, team)
               /\ user_role # ""
               /\ user_role # "Unknown"
               /\ ROLE_MAP(user_role) # ""
        roles == IF pin
                 THEN [EmptyRoles EXCEPT ![ROLE_MAP(user_role)] = user_champion]
                 ELSE EmptyRoles
        available == IF pin THEN ListRemove(team, user_champion) ELSE team
        greedy == Greedy(roles, available, Len(RoleKeys))
    IN  FillOpenSlots(greedy.roles, greedy.available, 1).roles

\* RoleInferenceEngineAgent.infer: the two assignments of its output
infer(input_data) ==
    [blue_roles |-> assign_roles(input_data.blue_team,
                                 input_data.user_champion,
                                 input_data.user_role),
     red_roles |-> assign_roles(input_data.red_team, "", "")]

BlueRoster == {"Darius", "Garen", "Sett", "Irelia", "Yasuo", "Mel"}

\* Five different champions, in any order
BlueTeams ==
    {t \in [1..5 -> BlueRoster] : \A i, j \in 1..5 : t[i] = t[j] => i = j}

RedTeams ==
    {<<"Yone", "Lee Sin", "Akali", "Lucian", "Nautilus">>,
     <<"Lucian", "Mel", "Akali", "Yone", "Lee Sin">>}

UserRoles == {"", "Top", "Jungle", "Mid", "ADC", "Support", "Unknown"}

NoInference ==
    [called |-> FALSE,
     input |-> [blue_team |-> <<>>, red_team |-> <<>>, user_champion |-> "",
                user_role |-> ""],
     output |-> [blue_roles |-> EmptyRoles, red_roles |-> EmptyRoles]]

\* One infer call, as LeagueCoachingSwarm.coach and run_tests make it; the
\* agent keeps nothing from one call to the next
Infer ==
    /\ ~inference.called
    /\ \E blue_team \in BlueTeams, red_team \in RedTeams,
          user_role \in UserRoles :
           \E user_champion \in {"", blue_team[2], red_team[3]} :
               LET input_data == [blue_team |-> blue_team,
                                  red_team |-> red_team,
                                  user_champion |-> user_champion,
                                  user_role |-> user_role]
               IN  inference' = [called |-> TRUE, input |-> input_data,
                                 output |-> infer(input_data)]
    /\ UNCHANGED <<judge_vars, classifier_vars, session_store_vars, chat_vars,
                   breakers, harness_vars, swarm_vars, pipeline_vars,
                   watcher_vars>>

\* ------------------------------------------------------------------------
\* CoachingPipeline.process_screenshot of the daemon, one thread per
\* screenshot
\*
\* A thread is at "check" before `if self._processing`, at "set" between
\* the test and `self._processing = True`, at "running" from there to the
\* finally clause, and at "none" when it has returned or was never started.
\* ------------------------------------------------------------------------

WatcherOthers ==
    <<judge_vars, classifier_vars, session_store_vars, chat_vars, role_vars,
      breakers, harness_vars, swarm_vars, pipeline_vars>>

\* LeagueCoachDaemon._on_screenshot: a thread is started for the screenshot
OnScreenshot(t) ==
    /\ n_shots < MaxShots
    /\ threads[t] = "none"
    /\ threads' = [threads EXCEPT ![t] = "check"]
    /\ n_shots' = n_shots + 1
    /\ UNCHANGED <<watcher, WatcherOthers>>

\* `if self._processing: return`: the flag is read, and the screenshot is
\* skipped when it is set
CheckProcessing(t) ==
    /\ threads[t] = "check"
    /\ threads' = [threads EXCEPT ![t] =
                      IF watcher.processing THEN "none" ELSE "set"]
    /\ UNCHANGED <<watcher, n_shots, WatcherOthers>>

\* `self._processing = True; self.stats["screenshots_seen"] += 1`
SetProcessing(t) ==
    /\ threads[t] = "set"
    /\ threads' = [threads EXCEPT ![t] = "running"]
    /\ watcher' = [processing |-> TRUE,
                   screenshots_seen |-> watcher.screenshots_seen + 1]
    /\ UNCHANGED <<n_shots, WatcherOthers>>

\* The try block ends, by a return or an exception, and the finally
\* clause runs: `self._processing = False`
FinishProcessing(t) ==
    /\ threads[t] = "running"
    /\ threads' = [threads EXCEPT ![t] = "none"]
    /\ watcher' = [watcher EXCEPT !.processing = FALSE]
    /\ UNCHANGED <<n_shots, WatcherOthers>>

WatcherStep ==
    \E t \in 1..MaxThreads :
        \/ OnScreenshot(t)
        \/ CheckProcessing(t)
        \/ SetProcessing(t)
        \/ FinishProcessing(t)

\* ------------------------------------------------------------------------
\* Initial state and specifications
\* ------------------------------------------------------------------------

Init ==
    /\ breakers = [b \in BreakerNames |-> NewBreaker]
    /\ slots = [s \in Slots |-> NoCall]
    /\ hist = <<>>
    /\ last_call = NoLastCall
    /\ n_calls = 0
    /\ overlapped = FALSE
    /\ run = NoRun
    /\ n_runs = 0
    /\ now = Epoch
    /\ last_process_time = 0
    /\ initialized = FALSE
    /\ client \in {"none", "sync"}
    /\ detector = NewDetector
    /\ session = NewSession
    /\ prs = [i \in 1..MaxRequests |-> NoRequest]
    /\ last_result = NoResult
    /\ judge = NoJudge
    /\ clf = NewDetector
    /\ seen = NoneSeen
    /\ clk = 0
    /\ n_detects = 0
    /\ shown = BlankFrame(70)
    /\ n_changes = 0
    /\ store = NewGameSession
    /\ last_update = NoUpdate
    /\ n_updates = 0
    /\ wall = 0
    /\ lifecycle = NoLifecycle
    /\ advice = NoAdvice
    /\ chat = NewChatSession
    /\ n_messages = 0
    /\ pinned_ids = {}
    /\ returned_id = Unset
    /\ inference = NoInference
    /\ watcher = [processing |-> FALSE, screenshots_seen |-> 0]
    /\ threads = [t \in 1..MaxThreads |-> "none"]
    /\ n_shots = 0
    /\ n_requests = 0
    /\ out = [screenshots |-> 0, coaching |-> 0, notified |-> 0,
              save_failures |-> 0]
    /\ disk = "ok"
    /\ classified = NoClassified
    /\ thrown = NoThrown

NextBreaker == BeginCall \/ CompleteCall

SpecBreaker == Init /\ [][NextBreaker]_vars

NextSwarm ==
    \/ CoachCall
    \/ VisionReturns
    \/ ResolveIdentity
    \/ StartFanout
    \/ AdvisoryReturns
    \/ JudgePhase
    \/ Assemble

SpecSwarm == Init /\ [][NextSwarm]_vars

NextPipeline == Screenshot \/ VisionAnswer \/ CoachingAnswer \/ Tick

SpecPipeline == Init /\ [][NextPipeline]_vars

NextPersist ==
    \/ Screenshot
    \/ VisionAnswer
    \/ CoachingAnswer
    \/ CooldownPasses
    \/ DiskChanges

SpecPersist == Init /\ [][NextPersist]_vars

NextFaults ==
    \/ Screenshot
    \/ FaultyScreenshot
    \/ VisionAnswer
    \/ CoachingAnswer
    \/ CoachingFault
    \/ CooldownPasses

SpecFaults == Init /\ [][NextFaults]_vars

NextJudge == JudgeValidate

SpecJudge == Init /\ [][NextJudge]_vars

NextScore == WarmUp \/ Probe

SpecScore == Init /\ [][NextScore]_vars

NextClassifier == ClassifierDetect \/ ClockTick

SpecClassifier == Init /\ [][NextClassifier]_vars

NextHistory == RepeatedDetect \/ ScreenChanges

SpecHistory == Init /\ [][NextHistory]_vars

NextSession ==
    \/ SessionUpdateFromLoading
    \/ SessionUpdateFromTab
    \/ EngineUpdateSession
    \/ WallTick

SpecSession == Init /\ [][NextSession]_vars

NextLifetime ==
    \/ HandleLiveCoaching
    \/ HandleLoadingScreen
    \/ HandleLoadingScreenUnplanned

SpecLifetime == Init /\ [][NextLifetime]_vars

NextExtract == CoachFromScreenshot \/ WallTick

SpecExtract == Init /\ [][NextExtract]_vars

NextBuild == BuildSessionUpdate \/ CheckBuild

SpecBuild == Init /\ [][NextBuild]_vars

NextChat == AddMessage

SpecChat == Init /\ [][NextChat]_vars

NextPoll == AddPolledMessage \/ GetMessages

SpecPoll == Init /\ [][NextPoll]_vars

NextInfer == Infer

SpecInfer == Init /\ [][NextInfer]_vars

NextWatcher == WatcherStep

SpecWatcher == Init /\ [][NextWatcher]_vars

\* ------------------------------------------------------------------------
\* Properties of AgentCircuitBreaker (checked under SpecBreaker)
\* ------------------------------------------------------------------------

\* Number of "fail" entries at the end of h.
RECURSIVE TrailingFails(_)
TrailingFails(h) ==
    IF h = <<>> \/ h[Len(h)] # "fail" THEN 0
    ELSE 1 + TrailingFails(SubSeq(h, 1, Len(h) - 1))

\* h holds failure_threshold failures in a row somewhere.
HasRun(h) ==
    \E i \in 1..Len(h) :
        /\ i + failure_threshold - 1 <= Len(h)
        /\ \A j \in i..(i + failure_threshold - 1) : h[j] = "fail"

\* What the caller is owed when the wrapped call is not used.
FallbackOwed(fallback) ==
    IF fallback = "none" THEN None
    ELSE IF fallback = "async" THEN "awaited_fallback_value"
    ELSE "fallback_value"

\* C1: in every state where is_open is true, an execute call made from that
\* state returns the fallback's value (None without a fallback) and the
\* wrapped call is never awaited: nothing is suspended, nothing is recorded
\* as having run, and the breaker is left as it was.
C1_OpenReturnsFallback ==
    [][(breakers[Harness].is_open /\ n_calls' = n_calls + 1) =>
         /\ last_call'.outcome = "short_circuit"
         /\ last_call'.awaited = FALSE
         /\ last_call'.propagated = FALSE
         /\ last_call'.ret = FallbackOwed(last_call'.fallback)
         /\ slots' = slots
         /\ hist' = hist
         /\ breakers' = breakers]_vars

C1_Witness ==
    /\ breakers[Harness].is_open
    /\ last_call.outcome = "short_circuit"
    /\ last_call.fallback = "sync"
    /\ last_call.ret = "fallback_value"

\* C2: the counter counts the failures in a row and a success resets it to
\* 0; the breaker is open exactly from the completion of the
\* failure_threshold-th failure in a row on, not earlier; and when execute
\* is called one call after the other with a failing call, the wrapped
\* call is awaited failure_threshold times and not once more.
C2_TripsAtThreshold ==
    /\ breakers[Harness].failures = TrailingFails(hist)
    /\ breakers[Harness].is_open <=> HasRun(hist)
    /\ (/\ ~overlapped
        /\ Len(hist) >= failure_threshold
        /\ \A i \in 1..failure_threshold : hist[i] = "fail")
       => (Len(hist) = failure_threshold /\ Awaiting = {})

C2_Witness ==
    /\ ~overlapped
    /\ n_calls = failure_threshold + 1
    /\ hist = [i \in 1..failure_threshold |-> "fail"]
    /\ breakers[Harness].is_open
    /\ last_call.outcome = "short_circuit"

\* C3: once is_open is true it stays true: no execute call, a succeeding
\* one included, closes the breaker again.
C3_OpenIsPermanent ==
    [][breakers[Harness].is_open => breakers'[Harness].is_open]_vars

\* A call that was suspended when the breaker opened has since succeeded.
C3_Witness ==
    /\ breakers[Harness].is_open
    /\ hist # <<>>
    /\ hist[Len(hist)] = "ok"
    /\ last_call.outcome = "ok"

\* C4: when the awaited wrapped call times out or raises, execute does not
\* propagate the failure: it adds exactly one to the failure counter and
\* returns fallback(), None without a fallback.
C4_FailureIsAbsorbed ==
    [][(Len(hist') = Len(hist) + 1 /\ hist'[Len(hist')] = "fail") =>
         /\ breakers'[Harness].failures = breakers[Harness].failures + 1
         /\ last_call'.outcome \in {"raise", "timeout"}
         /\ last_call'.propagated = FALSE
         /\ last_call'.ret = FallbackOwed(last_call'.fallback)]_vars

C4_Witness ==
    /\ last_call.outcome = "raise"
    /\ last_call.fallback = "none"
    /\ last_call.ret = None
    /\ breakers[Harness].failures = 2
    /\ ~breakers[Harness].is_open

\* ------------------------------------------------------------------------
\* Properties of LeagueCoachingSwarm.coach (checked under SpecSwarm)
\* ------------------------------------------------------------------------

\* C6: with an image or both teams given, the failure of a single phase
\* never aborts the run: no exception leaves coach().
C6_NoPhaseAbortsRun ==
    (run.image_data \/ run.teams) => run.pc # "raised"

IsPrefix(p, q) == Len(p) <= Len(q) /\ \A i \in 1..Len(p) : p[i] = q[i]

\* The phases a run has entered, the optional vision parse left out.
PhasesEntered ==
    IF run.log # <<>> /\ run.log[1] = "vision"
    THEN SubSeq(run.log, 2, Len(run.log)) ELSE run.log

\* C9: a run enters its phases in the order identity/role resolution,
\* advisory fan-out, validation, assembly; validation has not started while
\* one of the four advisory calls is unresolved; and assembly has not
\* started before validation has returned.
C9_PhaseOrderAndBarrier ==
    /\ IsPrefix(PhasesEntered,
                <<"identity", "fanout", "validation", "assembly">>)
    /\ (\E i \in 1..Len(run.log) : run.log[i] = "validation")
         => \A a \in Advisory : run.result[a] \notin {Pending}
    /\ (run.judge_result # Pending)
         => \A a \in Advisory : run.ext[a] # Pending
    /\ (\E i \in 1..Len(run.log) : run.log[i] = "assembly")
         => run.judge_result = "verdict"
    /\ (run.package # None) => run.judge_result = "verdict"

\* The four advisory calls resolved in a run that went on to assembly, one
\* of them by the agent's own default.
C9_Witness ==
    /\ run.pc = "done"
    /\ run.log = <<"vision", "identity", "fanout", "validation", "assembly">>
    /\ run.result["build"] = "llm_payload"
    /\ run.result["macro"] = "default_payload"

C5_LateResultDiscarded ==
    \A i \in 1..MaxRequests :
        prs[i].overran =>
            /\ prs[i].extracted = "error_timeout"
            /\ ~prs[i].session_updated

\* C7: a process_screenshot request that arrives less than the cooldown
\* interval after the start of the last accepted run returns the cooldown
\* result in the same step and leaves the classifier's history and current
\* state, the session, every breaker, the recorded last-run start time, the
\* runs in flight and the files on disk as they were.
C7_CooldownRejects ==
    [][(/\ n_requests' = n_requests + 1
        /\ now - last_process_time < cooldown_between_shots) =>
           /\ last_result' = [id |-> n_requests', game_state |-> "cooldown",
                              extracted |-> Pending]
           /\ UNCHANGED <<detector, session, breakers, last_process_time,
                          prs, out>>]_vars

\* A second request turned away one second after a run was accepted, that
\* run still waiting for its vision call.
C7_Witness ==
    /\ last_result.id = 2
    /\ last_result.game_state = "cooldown"
    /\ prs[1].pc = "vision_call"
    /\ now - last_process_time = 1
    /\ Len(detector.state_history) = 1

\* C8 as stated: at most one pipeline run is in flight at any time.
C8_AtMostOneRunInFlight == Cardinality(InFlight) <= 1

\* ------------------------------------------------------------------------
\* Properties of the validation gate (SpecJudge)
\* ------------------------------------------------------------------------

\* C11: for every input to the validation gate, approved is true if and
\* only if schema_valid is true and the verdict holds at most 3 Fix
\* entries.
C11_ApprovedIffWithinTolerance ==
    judge.called =>
        (judge.output.approved <=>
            (judge.output.schema_valid /\ Len(judge.output.fixes_applied) <= 3))

\* A verdict refused for its fourth Fix alone, and the schema still valid.
C11_Witness ==
    /\ judge.called
    /\ judge.output.schema_valid
    /\ Len(judge.output.fixes_applied) = 4
    /\ ~judge.output.approved

\* The categorical fields of an input that hold a value outside their
\* set, each with the name a Fix for it carries.
BadFields(in) ==
    (IF in.summoners[1] \in VALID_SUMMONERS THEN {}
     ELSE {<<"build.summoners[0]", 1>>})
    \cup (IF in.summoners[2] \in VALID_SUMMONERS THEN {}
          ELSE {<<"build.summoners[1]", 2>>})
    \cup (IF in.primary_tree \in VALID_RUNE_TREES THEN {}
          ELSE {<<"build.runes.primary_tree", 1>>})
    \cup (IF in.secondary_tree \in VALID_RUNE_TREES THEN {}
          ELSE {<<"build.runes.secondary_tree", 1>>})
    \cup (IF in.keystone \in VALID_KEYSTONES \cup {""} THEN {}
          ELSE {<<"keystone", 1>>})
    \cup {<<"build.skill_order.levels_1_6", k>> :
             k \in {k \in 1..6 : in.levels_1_6[k] \notin {"Q", "W", "E", "R"}}}
    \cup (IF in.start \in {"Q", "W", "E"} THEN {}
          ELSE {<<"build.skill_order.start", 1>>})

\* Nothing but the categorical fields is wrong with the input.
ListsComplete(in) ==
    /\ in.levels_1_3 >= 2
    /\ in.trade_windows >= 2
    /\ in.target_priority >= 2
    /\ in.wards >= 2

OneBadField(f) ==
    /\ judge.called
    /\ ListsComplete(judge.input)
    /\ BadFields(judge.input) = {f}

\* C12 as stated: an input that is valid everywhere except that one
\* categorical field holds one value outside its set yields approved = true
\* and exactly one Fix entry, which names that field.
C12_OneBadFieldOneFix ==
    judge.called =>
        \A f \in BadFields(judge.input) :
            OneBadField(f) =>
                /\ judge.output.approved
                /\ Len(judge.output.fixes_applied) = 1
                /\ judge.output.fixes_applied[1].field = f[1]

\* C12 as amended: such an input yields approved = true; when the field is
\* a summoner spell, a rune tree, a skill key or the starting skill the
\* verdict holds exactly one Fix entry, which names that field; when it is
\* the keystone the verdict holds no Fix entry and exactly one uncertainty
\* note.
C12_OneBadFieldOneRecord ==
    judge.called =>
        \A f \in BadFields(judge.input) :
            OneBadField(f) =>
                /\ judge.output.approved
                /\ IF f[1] = "keystone"
                   THEN /\ judge.output.fixes_applied = <<>>
                        /\ Len(judge.output.remaining_uncertainty) = 1
                   ELSE /\ Len(judge.output.fixes_applied) = 1
                        /\ judge.output.fixes_applied[1].field = f[1]

\* An input whose only fault is an unknown keystone, approved without a Fix.
C12_Witness ==
    /\ OneBadField(<<"keystone", 1>>)
    /\ judge.input.keystone = "Omnistone"
    /\ judge.output.approved
    /\ judge.output.fixes_applied = <<>>

\* The number of checks of the gate that an input fails: one for each
\* categorical field out of its set, one for each list that is too short,
\* one for the schema revalidation of what the gate leaves.
FailedChecks(in, after) ==
    Cardinality(BadFields(in))
    + (IF in.levels_1_3 < 2 THEN 1 ELSE 0)
    + (IF in.trade_windows < 2 THEN 1 ELSE 0)
    + (IF in.target_priority = 0 THEN 1 ELSE 0)
    + (IF in.wards < 2 THEN 1 ELSE 0)
    + (IF after.levels_1_3 < 2 \/ after.trade_windows < 2
          \/ after.target_priority < 2 \/ after.wards < 2
          \/ after.start \notin {"Q", "W", "E"} THEN 1 ELSE 0)

\* The fields whose value the gate has replaced.
CorrectedFields(in, after) ==
    (IF after.summoners[1] # in.summoners[1] THEN {"build.summoners[0]"} ELSE {})
    \cup (IF after.summoners[2] # in.summoners[2] THEN {"build.summoners[1]"} ELSE {})
    \cup (IF after.primary_tree # in.primary_tree THEN {"build.runes.primary_tree"} ELSE {})
    \cup (IF after.secondary_tree # in.secondary_tree THEN {"build.runes.secondary_tree"} ELSE {})
    \cup (IF after.levels_1_6 # in.levels_1_6 THEN {"build.skill_order.levels_1_6"} ELSE {})
    \cup (IF after.start # in.start THEN {"build.skill_order.start"} ELSE {})
    \cup (IF after.target_priority # in.target_priority THEN {"teamfight.target_priority"} ELSE {})

\* C13 as stated: each failed check of the gate appends exactly one record,
\* a Fix or an uncertainty note and never both, and a Fix is appended only
\* for a value that has been corrected or defaulted in place.
C13_OneRecordPerFailedCheck ==
    judge.called =>
        /\ Len(judge.output.fixes_applied)
             + Len(judge.output.remaining_uncertainty)
           = FailedChecks(judge.input, judge.after)
        /\ \A i \in 1..Len(judge.output.fixes_applied) :
              judge.output.fixes_applied[i].field
                 \in CorrectedFields(judge.input, judge.after)

\* ------------------------------------------------------------------------
\* Properties of the frame classifier (SpecScore, SpecClassifier,
\* SpecHistory)
\* ------------------------------------------------------------------------

\* C14: for every frame and every classifier history, the confidence of
\* the result of detect, and the composite score of every candidate
\* hypothesis, lies in [0,1] (0..800 in units of 1/800).
C14_ConfidenceInUnitInterval ==
    seen.kind # "none" =>
        /\ seen.result.confidence \in 0..800
        /\ \A i \in 1..Len(seen.result.scores) : seen.result.scores[i] \in 0..800

\* A probe of a detector that has been in game, the death hypothesis
\* winning with its in-game bonus, next to a loading hypothesis that
\* scores as well.
C14_Witness ==
    /\ seen.kind = "probe"
    /\ seen.result.previous_state = "in_game_laning"
    /\ seen.result.state = "death_screen"
    /\ seen.result.confidence = 760
    /\ seen.result.scores[1] = 680

\* C15 as stated: whenever the best-scoring hypothesis scores below the
\* minimum-confidence floor (0.65, 520 in units of 1/800), detect reports
\* NOT_LOL instead of that hypothesis.
C15_BelowFloorIsUnrecognized ==
    (seen.kind # "none" /\ seen.result.confidence < 520) =>
        seen.result.state = "not_lol"

\* C16 as stated: from one detect call to the next that returns the same
\* state, state_duration_seconds does not decrease.
C16_DurationAccumulates ==
    [][(/\ n_detects' = n_detects + 1
        /\ seen.kind # "none"
        /\ seen'.result.state = seen.result.state) =>
           seen'.result.state_duration_seconds
              >= seen.result.state_duration_seconds]_vars

IsSuffix(p, q) ==
    /\ Len(p) <= Len(q)
    /\ \A i \in 1..Len(p) : p[i] = q[Len(q) - Len(p) + i]

\* C17: after any number of detect calls the rolling history holds at most
\* 100 entries, they are the newest detections in order (the oldest are the
\* ones discarded), and the most recent detection is among them.
C17_HistoryBounded ==
    /\ Len(clf.state_history) <= 100
    /\ IsSuffix(clf.state_history, seen.log)
    /\ n_detects > 0 =>
          /\ clf.state_history # <<>>
          /\ clf.state_history[Len(clf.state_history)] = seen.result.state

\* The call after the one that cut the history back, two states in it.
C17_Witness ==
    /\ n_detects = 102
    /\ Len(seen.log) = 102
    /\ Len(clf.state_history) = 51
    /\ clf.state_history[1] # clf.state_history[51]

PhaseRank(phase) ==
    CASE phase = "early_laning" -> 1
      [] phase = "mid_laning" -> 2
      [] phase = "mid_game" -> 3
      [] phase = "late_game" -> 4

Bucket(minutes) ==
    IF minutes < 8 THEN "early_laning"
    ELSE IF minutes < 14 THEN "mid_laning"
    ELSE IF minutes < 25 THEN "mid_game"
    ELSE "late_game"

\* C18: the timeline phase of an in-game result is the bucket, at the
\* cutoffs 8, 14 and 25 minutes, of the time elapsed since the session
\* clock started; and while the session clock is not restarted the phase
\* of an in-game result is never an earlier bucket than that of the
\* in-game result before it.
C18_PhaseFollowsElapsedTime ==
    [][(/\ n_detects' = n_detects + 1
        /\ seen'.result.state = "in_game_laning") =>
           /\ seen'.result.phase = Bucket(clk - clf'.game_start_time)
           /\ (clf'.game_start_time = clf.game_start_time
               /\ seen.timeline # "None") =>
                  PhaseRank(seen'.result.phase) >= PhaseRank(seen.timeline)]_vars

\* An in-game result in mid game after one in mid laning, the clock not
\* restarted in between.
C18_Witness ==
    /\ n_detects = 3
    /\ seen.log = <<"in_game_laning", "in_game_laning", "in_game_laning">>
    /\ seen.result.phase = "mid_game"
    /\ clk - clf.game_start_time = 14
    /\ seen.result.state_duration_seconds = 5

\* ------------------------------------------------------------------------
\* Properties of the session store (SpecSession)
\* ------------------------------------------------------------------------

\* The session field a key of an extraction is written to
FieldOf(key) ==
    CASE key = "current_items" -> "user_items"
      [] key = "current_gold" -> "user_gold"
      [] key = "level" -> "user_level"
      [] OTHER -> key

\* The session fields named by the keys that are present in the input of
\* an update
KeyedFields(upd) == {FieldOf(k) : k \in upd.input.keys \cap KeysOf(upd.state)}

\* A step that is an update of the session with an extraction
ExtractionUpdate ==
    /\ n_updates' = n_updates + 1
    /\ last_update'.op \in {"update_from_tab", "_update_session"}

\* C19 as stated: a session update with a partial extraction overwrites
\* only the session fields whose keys are present in the extraction; every
\* other session field keeps its prior value.
C19_OnlyPresentKeysWritten ==
    [][ExtractionUpdate =>
          \A f \in DOMAIN store \ KeyedFields(last_update') :
              store'[f] = store[f]]_vars

\* The session fields an update keeps a log or a count in
LogFields == {"user_items_history", "deaths", "screenshots_analyzed"}

Carried(upd) == upd.op = "update_from_tab" \/ ~Flagged(upd.input)

\* C19, amended: an update with a partial extraction leaves every keyed
\* field whose key is absent, and every field that has no key, as it was,
\* except the three log fields: user_items_history gains one snapshot
\* exactly when a scoreboard update has the key user_items, deaths gains
\* one record on exactly the death updates, and screenshots_analyzed goes
\* up by one on exactly the updates _update_session carries out. A key
\* that is present in an update that is carried out has its value written.
C19_AbsentKeysKeepFields ==
    [][ExtractionUpdate =>
          LET upd == last_update'
              tab == upd.state = "tab_scoreboard" /\ Carried(upd)
              engine == upd.op = "_update_session" /\ Carried(upd)
          IN  /\ \A f \in DOMAIN store \ (KeyedFields(upd) \cup LogFields) :
                     store'[f] = store[f]
              /\ store'.user_items_history =
                     IF tab /\ "user_items" \in upd.input.keys
                     THEN Append(store.user_items_history,
                                 [time |-> wall, items |-> upd.input.user_items])
                     ELSE store.user_items_history
              /\ Len(store'.deaths) =
                     IF engine /\ upd.state = "death_screen"
                     THEN Len(store.deaths) + 1 ELSE Len(store.deaths)
              /\ store'.screenshots_analyzed =
                     IF engine THEN store.screenshots_analyzed + 1
                     ELSE store.screenshots_analyzed
              /\ tab => /\ "user_items" \in upd.input.keys =>
                               store'.user_items = upd.input.user_items
                        /\ "user_cs" \in upd.input.keys =>
                               store'.user_cs = upd.input.user_cs
                        /\ "user_kda" \in upd.input.keys =>
                               store'.user_kda = upd.input.user_kda]_vars

\* A scoreboard update that holds only user_cs, after a scoreboard update
\* that set the items and the enemy items: the creep score is written and
\* the items, their one snapshot and the enemy items are still there.
C19_Witness ==
    /\ n_updates = 2
    /\ last_update.op = "_update_session"
    /\ last_update.state = "tab_scoreboard"
    /\ last_update.input.keys = {"user_cs"}
    /\ store.user_cs = 42
    /\ store.user_items = <<"Doran's Blade", "Boots">>
    /\ Len(store.user_items_history) = 1
    /\ store.enemy_items # EmptyDict
    /\ store.screenshots_analyzed = 2

\* C20 as stated: calling the same session update operation twice in a row
\* with identical input is a no-op on the second call, the whole session
\* after the second call equals the session after the first.
C20_SecondCallIsNoOp ==
    [][(/\ n_updates' = n_updates + 1
        /\ last_update'.op = last_update.op
        /\ last_update'.state = last_update.state
        /\ last_update'.input = last_update.input) =>
           store' = store]_vars

\* ------------------------------------------------------------------------
\* Properties of the session over several games (SpecLifetime)
\* ------------------------------------------------------------------------

\* C21 as stated: the death log of the session is a bounded ring; after
\* any number of death updates it holds no more records than the fixed
\* window the session retains for its readers, the oldest being discarded.
C21_DeathLogBounded ==
    /\ Len(store.deaths) <= DeathHistoryWindow
    /\ store.deaths = ContextForCoaching(store, wall).death_history

\* The rosters have been set by an initializing extraction
RostersSet(s) == s.blue_team # <<>> /\ s.red_team # <<>>

\* C22 as stated: once the two rosters of the session have been set, no
\* later update of the session changes the size of either.
C22_RostersNeverResized ==
    [][RostersSet(store) =>
          /\ Len(store'.blue_team) = Len(store.blue_team)
          /\ Len(store'.red_team) = Len(store.red_team)]_vars

\* C23 as stated: when a loading screen follows the post-game screen, a new
\* session has begun and the knowledge of the previous one is gone: the
\* death log, the item history, the enemy items and the KDA are as in a
\* new session.
C23_NewSessionResets ==
    [][(/\ lifecycle'.previous = "post_game_stats"
        /\ lifecycle'.current = "loading_screen"
        /\ n_updates' = n_updates + 1) =>
           /\ store'.deaths = NewGameSession.deaths
           /\ store'.user_items_history = NewGameSession.user_items_history
           /\ store'.enemy_items = NewGameSession.enemy_items
           /\ store'.user_kda = NewGameSession.user_kda]_vars

\* ------------------------------------------------------------------------
\* Properties of the extraction (SpecExtract)
\* ------------------------------------------------------------------------

\* C24 as stated: a vision answer that is empty, is not JSON, is cut off
\* JSON, or a call that ends with a timeout or an exception, raises nothing
\* to the caller and changes nothing in the session.
C24_NoPayloadNoChange ==
    [][(/\ n_updates' = n_updates + 1
        /\ last_update'.input.kind \in UnparsedKinds \cup FailureKinds) =>
           /\ last_update'.op # "AttributeError"
           /\ store' = store]_vars

\* ------------------------------------------------------------------------
\* Properties of should_adjust_build (SpecBuild)
\* ------------------------------------------------------------------------

\* The items recorded for the lane opponent of session s
CounterpartItems(s) ==
    IF s.lane_opponent # "" /\ s.lane_opponent \in DOMAIN s.enemy_items
    THEN s.enemy_items[s.lane_opponent] ELSE <<>>

\* Item names of a category, in whatever case they are spelt
Spellings(list) == {n \in ItemNames : \E k \in list : Lower(n) = k}

Holds(seq, names) == \E i \in 1..Len(seq) : seq[i] \in names

\* A step that is a call of should_adjust_build
BuildChecked == advice'.called /\ n_updates' = n_updates

\* C25: the check returns the reason naming armor, or magic resist, when
\* and only when the items recorded for the lane opponent hold at least one
\* item of that category's keyword list.
C25_ReasonIffCounterpartItem ==
    [][BuildChecked =>
          /\ Holds(advice'.reasons, {"enemy_building_armor"})
               <=> Holds(CounterpartItems(store), Spellings(armor_items))
          /\ Holds(advice'.reasons, {"enemy_building_mr"})
               <=> Holds(CounterpartItems(store), Spellings(mr_items))]_vars

\* The lane opponent has armor spelt with capitals and no magic resist, and
\* the check has named armor alone.
C25_Witness ==
    /\ advice.called
    /\ store.lane_opponent = "Darius"
    /\ Holds(CounterpartItems(store), {"Plated Steelcaps"})
    /\ advice.reasons = <<"enemy_building_armor">>
    /\ advice.adjust

\* C26: the check raises the trigger for dying exactly when the deaths of
\* the KDA exceed the fixed threshold (the third death is the first past
\* it) and exceed kills plus assists, and it returns true exactly when at
\* least one of its triggers holds.
C26_DyingTriggerAndFlag ==
    [][BuildChecked =>
          /\ Holds(advice'.reasons, {"dying_frequently"})
               <=> (/\ store.user_kda[2] > 2
                    /\ store.user_kda[2] > store.user_kda[1] + store.user_kda[3])
          /\ advice'.adjust
               <=> \/ Holds(CounterpartItems(store), Spellings(armor_items))
                   \/ Holds(CounterpartItems(store), Spellings(mr_items))
                   \/ (/\ store.user_kda[2] > 2
                       /\ store.user_kda[2]
                            > store.user_kda[1] + store.user_kda[3])]_vars

\* The third death, with fewer kills and assists, and nothing bought by the
\* lane opponent that counts: the check is true for dying alone.
C26_Witness ==
    /\ advice.called
    /\ store.user_kda = <<0, 3, 0>>
    /\ advice.reasons = <<"dying_frequently">>
    /\ advice.adjust
    /\ ~Holds(CounterpartItems(store), Spellings(armor_items \cup mr_items))

\* C27: the check is read-only, a call leaves every field of the session
\* as it was, however often it is called.
C27_CheckIsReadOnly ==
    [][BuildChecked => store' = store]_vars

\* The check has been made on a session that holds a lane opponent, enemy
\* items and a KDA, and has found something.
C27_Witness ==
    /\ advice.called
    /\ advice.adjust
    /\ n_updates = 2
    /\ store.lane_opponent # ""
    /\ store.enemy_items # EmptyDict
    /\ store.build_adjustments = <<>>

\* ------------------------------------------------------------------------
\* Properties of the saves (SpecPersist)
\* ------------------------------------------------------------------------

\* A step in which process_screenshot returns the result of a screenshot
\* it has routed to coaching
ResultReturned ==
    /\ last_result'.id # last_result.id
    /\ last_result'.game_state \notin {"cooldown", "not_lol"}

\* C28: a failure to save the screenshot or the result does not affect the
\* pipeline: whether the disk can be written or not, process_screenshot
\* returns the coaching result of the state it routed, never the error
\* result, and makes the coaching-ready callback once.
C28_SaveFailureIsHarmless ==
    [][ResultReturned =>
          /\ out'.notified = out.notified + 1
          /\ last_result'.game_state \in {f.state : f \in Frames}
          /\ \A i \in 1..MaxRequests :
                 prs[i].pc = "coaching_call" /\ prs'[i].pc = "none" =>
                     /\ last_result'.game_state = prs[i].state
                     /\ last_result'.extracted = prs[i].extracted]_vars

\* Both saves of a scoreboard screenshot have failed, and its result has
\* come back with the extracted data and has been notified.
C28_Witness ==
    /\ out.save_failures = 2
    /\ out.screenshots = 0
    /\ out.coaching = 0
    /\ out.notified = 1
    /\ last_result.game_state = "tab_scoreboard"
    /\ last_result.extracted = "data"

\* ------------------------------------------------------------------------
\* Properties of ChatSession (SpecChat)
\* ------------------------------------------------------------------------

\* `assert len(session.messages) <= session.max_history + 10`
TrimSlack == 10

\* C29 as stated: after any sequence of add_message calls, whatever number
\* of messages is pinned, the session holds no more than max_history plus
\* ten messages.
C29_HistoryBounded == Len(chat.messages) <= ChatMaxHistory + TrimSlack

MessageIds(c) == {c.messages[i].id : i \in 1..Len(c.messages)}

\* C30: a message that was pinned when it was added is never removed by
\* the trimming of the history, it is in the list after every later
\* add_message.
C30_PinnedSurviveTrim == pinned_ids \subseteq MessageIds(chat)

\* A pinned message is still there after messages added later than it
\* have been trimmed away.
C30_Witness ==
    \E p \in pinned_ids :
        /\ p \in MessageIds(chat)
        /\ \E r \in (p + 1)..n_messages : r \notin MessageIds(chat)
        /\ Len(chat.messages) = ChatMaxHistory

\* ------------------------------------------------------------------------
\* Properties of GET /api/messages (SpecPoll)
\* ------------------------------------------------------------------------

\* C31 as stated: polling with an id the server returned earlier gives
\* exactly the messages added after the message of that id (of those the
\* session still holds), in the order in which they were added, whatever
\* was added and trimmed since the id was returned.
C31_PollReturnsLaterMessages ==
    returned_id # Unset =>
        LET response == get_messages(chat, returned_id)
        IN  /\ {response[i].id : i \in 1..Len(response)}
                   = {id \in MessageIds(chat) : id > returned_id}
            /\ \A i, j \in 1..Len(response) :
                   i < j => response[i].id < response[j].id

\* ------------------------------------------------------------------------
\* Properties of role inference (SpecInfer)
\* ------------------------------------------------------------------------

Champions(team) == {team[i] : i \in 1..Len(team)}

OneToOne(roles, team) ==
    /\ \A k \in DOMAIN roles : roles[k] \in Champions(team)
    /\ \A c \in Champions(team) : \E k \in DOMAIN roles : roles[k] = c
    /\ \A k1, k2 \in DOMAIN roles : roles[k1] = roles[k2] => k1 = k2

\* C32: for a team of five champions the assignment is one to one: every
\* role holds a champion of the team, every champion of the team holds a
\* role, no champion holds two roles and no slot is empty.
C32_RolesAreOneToOne ==
    inference.called =>
        /\ OneToOne(inference.output.blue_roles, inference.input.blue_team)
        /\ OneToOne(inference.output.red_roles, inference.input.red_team)

\* A team in which the champions left have no prior for the open roles,
\* with the user's champion pinned
C32_Witness ==
    /\ inference.called
    /\ inference.input.blue_team = <<"Darius", "Sett", "Garen", "Irelia", "Mel">>
    /\ inference.input.user_champion = "Sett"
    /\ inference.input.user_role = "ADC"
    /\ inference.output.blue_roles.ADC = "Sett"

\* C37 as stated: when the user's champion and role are given and the
\* champion is in one of the two teams, the output for that team has the
\* champion in that role, on the blue side and on the red side alike.
C37_UserKeepsRole ==
    LET input == inference.input
        output == inference.output
        given == /\ inference.called
                 /\ input.user_champion # ""
                 /\ ROLE_MAP(input.user_role) # ""
    IN  /\ given /\ InTeam(input.user_champion, input.blue_team)
               => output.blue_roles[ROLE_MAP(input.user_role)]
                      = input.user_champion
        /\ given /\ InTeam(input.user_champion, input.red_team)
                 /\ ~InTeam(input.user_champion, input.blue_team)
               => output.red_roles[ROLE_MAP(input.user_role)]
                      = input.user_champion

\* ------------------------------------------------------------------------
\* Properties of process_screenshot under failures (SpecFaults)
\* ------------------------------------------------------------------------

\* An exception was thrown during the run that returned last: one of the
\* recorded ones, the AttributeError of self.swarm.run on a loading
\* screen, or a failure of the vision call inside the coaching engine.
ExceptionThrown ==
    /\ last_result.id > 0
    /\ \/ thrown.id = last_result.id
       \/ classified.id = last_result.id
          /\ classified.frame.state = "loading_screen"
          /\ ~Rejected(classified.frame)
       \/ last_result.extracted \in {"error", "error_timeout"}

\* C33 as stated: process_screenshot never raises to its caller, and
\* every exception thrown by detection, by a callback, by routing or by
\* coaching makes it return a result whose game_state is "error".
C33_EveryExceptionGivesError ==
    /\ last_result.game_state # "raised"
    /\ ExceptionThrown => last_result.game_state = "error"

\* C33, amended: process_screenshot never raises to its caller. An
\* exception thrown by detection, by a callback, by _encode_image or by
\* the conversion in _handle_live_coaching makes it return a result whose
\* game_state is "error"; an exception caught further in (the swarm
\* failing on a loading screen, the vision call failing in the coaching
\* engine) leaves the result with the state that was detected.
C33_NeverRaises ==
    /\ last_result.game_state # "raised"
    /\ thrown.id > 0 /\ thrown.id = last_result.id
           => last_result.game_state = "error"
    /\ ExceptionThrown /\ thrown.id # last_result.id
           => last_result.game_state \in {f.state : f \in Frames}

\* The coaching-ready callback of a coached screenshot has raised after
\* the session was updated and the coaching saved.
C33_Witness ==
    /\ thrown.at = "on_coaching_ready"
    /\ thrown.id = last_result.id
    /\ last_result.game_state = "error"
    /\ last_result.extracted = "data"
    /\ session.screenshots_analyzed > 0
    /\ out.coaching > 0

\* ------------------------------------------------------------------------
\* Properties of the rejection of a screenshot (SpecPipeline)
\* ------------------------------------------------------------------------

BelowFloor(frame) ==
    frame.state = "not_lol" \/ frame.confidence < game_state_confidence

\* A process_screenshot call has classified its frame in this step, and
\* the frame is unrecognized or below the confidence floor
RejectedRun ==
    /\ n_requests' = n_requests + 1
    /\ classified'.id = n_requests'
    /\ BelowFloor(classified'.frame)

C35_PreviousStateIsLastState ==
    seen.kind # "none" =>
        LET n == Len(seen.log)
        IN  /\ seen.result.state = seen.log[n]
            /\ seen.result.previous_state =
                   (IF n = 1 THEN "not_lol" ELSE seen.log[n - 1])

\* A third result whose state differs from the state before it
C35_Witness ==
    /\ seen.kind # "none"
    /\ Len(seen.log) = 3
    /\ seen.log[1] # seen.log[2]
    /\ seen.log[2] # seen.log[3]
    /\ seen.result.previous_state = seen.log[2]

InGameStates == {"in_game_laning", "in_game_teamfight", "in_game_objectives"}

\* C36 as stated: a detect call whose winning state is not an in-game
\* state leaves _game_start_time as it was, so that the clock, unset at
\* construction, stays unset until the first in-game result.
C36_ClockStartsInGame ==
    [][n_detects' = n_detects + 1 /\ seen'.result.state \notin InGameStates
           => clf'.game_start_time = clf.game_start_time]_vars

\* Position in the order in which detect runs the six checks
CheckIndex(state) == CHOOSE i \in 1..Len(Checks) : Checks[i] = state

\* C40: the state detect returns is that of a candidate whose score is the
\* highest of the six, and of several candidates with the highest score
\* the one first in the order loading screen, scoreboard, shop, death,
\* post-game, in-game.
C40_FirstOfTheBestWins ==
    seen.kind = "probe" =>
        LET scores == seen.result.scores
            won == CheckIndex(seen.result.state)
        IN  /\ seen.result.confidence = scores[won]
            /\ \A j \in 1..Len(scores) : scores[j] <= scores[won]
            /\ \A j \in 1..(won - 1) : scores[j] < scores[won]

\* Two candidates after the first share the highest score, which is not
\* zero, and the earlier of them is returned
C40_Witness ==
    /\ seen.kind = "probe"
    /\ LET scores == seen.result.scores
           won == CheckIndex(seen.result.state)
       IN  /\ won > 1
           /\ scores[won] > 0
           /\ \E j \in (won + 1)..Len(scores) : scores[j] = scores[won]

\* ------------------------------------------------------------------------
\* Properties of the _processing guard (SpecWatcher)
\* ------------------------------------------------------------------------

PastGuard == {t \in 1..MaxThreads : threads[t] \in {"set", "running"}}

\* C38 as stated: under every interleaving of the threads at most one
\* execution of process_screenshot is past the _processing guard.
C38_OneAtATime == Cardinality(PastGuard) <= 1

\* ------------------------------------------------------------------------
\* The breaker under execute calls in flight at once (SpecBreaker)
\* ------------------------------------------------------------------------

\* C39 as stated: in every reachable state of a breaker, also with several
\* execute calls on it in flight, is_open is true exactly when the failure
\* counter has reached the threshold, and the failure counter is never
\* above the threshold.
C39_OpenIffAtThreshold ==
    \A b \in BreakerNames :
        /\ breakers[b].is_open <=> breakers[b].failures >= failure_threshold
        /\ breakers[b].failures <= failure_threshold

====
